---- MODULE Spec2Model ----
(***************************************************************************)
(* StatusBeacon: the monitoring pipeline.                                  *)
(*                                                                         *)
(*   - incident detection: the queue worker hands every check result to    *)
(*     IncidentDetector.processCheckResult, which stores a check row,      *)
(*     asks the maintenance oracle and opens / resolves incidents;         *)
(*   - the batch runner MonitorRunner.runChecks;                           *)
(*   - configuration reload: MonitorRepository.syncMonitors followed by    *)
(*     reloadMonitors on the repeating jobs of the queue.                  *)
(*                                                                         *)
(* Time is counted in minutes since midnight UTC of the day the run starts.*)
(***************************************************************************)
EXTENDS Integers, Sequences, FiniteSets, TLC

(***************************************************************************)
(* Bounds of the exploration                                               *)
(***************************************************************************)
\* number of check results handed to the detector by overlapping jobs
MaxChecks == 2
\* number of check results handed to the detector by a job that runs alone
\* after the overlapping ones
MaxLoneChecks == 1
\* number of check results handed to the detector by jobs that do not overlap
MaxSerialChecks == 3
\* number of clock ticks after ClockStart
MaxTime == 3
\* minute of the day at which the behaviour starts (09:01)
ClockStart == 541

(***************************************************************************)
(* Program constants                                                       *)
(***************************************************************************)
FAILURE_THRESHOLD == 2
\* limit passed to CheckRepository.getRecentChecks by the detector
RecentChecksLimit == 10

\* SQL NULL / undefined
NULL == 0

\* monitor ids carried by the jobs (scheduleMonitors: monitorId = i + 1)
Monitors == {1, 2}
\* monitor ids used in monitors.yml
ConfigIds == {1, 2, 3}
\* concurrently running job handlers of the BullMQ worker
Workers == {1, 2}

VARIABLES
  now,                        \* wall clock: new Date() / NOW()
  checks,                     \* table checks, in insertion order
  incidents,                  \* table incidents, index = id
  maintenance_windows,        \* table maintenance_windows (fixed windows)
  recurringMaintenanceCache,  \* in-memory map monitorId -> daily windows
  wpc,                        \* position of each job handler
  result,                     \* the MonitorCheckResult a handler holds
  checkId,                    \* id returned by saveCheck to the handler
  maintenanceStatus,          \* local: maintenanceStatus.inMaintenance
  activeIncident,             \* local: activeIncident (id or NULL)
  consecutiveFailures,        \* local: consecutiveFailures
  handed                      \* per monitor: calls of processCheckResult so far

detectorVars == <<now, checks, incidents, maintenance_windows,
                  recurringMaintenanceCache, wpc, result, checkId,
                  maintenanceStatus, activeIncident, consecutiveFailures,
                  handed>>

(***************************************************************************)
(* Helpers                                                                 *)
(***************************************************************************)
Min(a, b) == IF a <= b THEN a ELSE b

Range(s) == {s[i] : i \in DOMAIN s}

(***************************************************************************)
(* Maintenance oracle                                                      *)
(***************************************************************************)
\* "HH:MM".split(':').map(Number); hour * 60 + minute
ToMinutes(hm) == hm[1] * 60 + hm[2]

\* how the runtime's Intl.DateTimeFormat('en-US', {hour12: false}) renders
\* the hour after midnight: "00" (hour cycle h23) or "24" (hour cycle h24,
\* the ICU resolution of hour12: false for en-US in the Node 20 image of the
\* Dockerfile); fixed for the life of the process
VARIABLES hourCycle
runtimeVars == <<hourCycle>>
HourCycles == {"h23", "h24"}

\* formatter.format(now): the hour field of hour h
FormatHour(h) == IF h = 0 /\ hourCycle = "h24" THEN 24 ELSE h

\* the formatter's hour and minute of instant t (timezone UTC)
CurrentMinutes(t) == FormatHour((t \div 60) % 24) * 60 + (t % 60)

isInRecurringWindow(config, t) ==
  LET currentMinutes == CurrentMinutes(t)
      startMinutes   == ToMinutes(config.start_time)
      endMinutes     == ToMinutes(config.end_time)
  IN  IF startMinutes <= endMinutes
      THEN currentMinutes >= startMinutes /\ currentMinutes < endMinutes
      ELSE currentMinutes >= startMinutes \/ currentMinutes < endMinutes

\* the one-time windows the query of isInMaintenance selects at instant t
ActiveFixedWindows(m, t) ==
  {w \in maintenance_windows :
      /\ (w.monitorId = m \/ w.monitorId = NULL)
      /\ w.startTime <= t
      /\ w.endTime >= t}

isInMaintenance(m, t) ==
  \/ \E i \in DOMAIN recurringMaintenanceCache[m] :
        isInRecurringWindow(recurringMaintenanceCache[m][i], t)
  \/ ActiveFixedWindows(m, t) # {}

(***************************************************************************)
(* Check store and incident store queries                                  *)
(***************************************************************************)
ChecksOf(m) == {i \in DOMAIN checks : checks[i].monitorId = m}

\* every order ORDER BY checked_at DESC may return the rows of S in
\* (rows with equal checked_at come in an unspecified order)
RECURSIVE DescOrders(_)
DescOrders(S) ==
  IF S = {} THEN {<<>>}
  ELSE LET newest == {i \in S : \A j \in S :
                          checks[i].checkedAt >= checks[j].checkedAt}
       IN  UNION {{<<i>> \o rest : rest \in DescOrders(S \ {i})} : i \in newest}

\* CheckRepository.getRecentChecks: the possible answers, newest first
getRecentChecks(m, limit) ==
  {SubSeq(o, 1, Min(limit, Len(o))) : o \in DescOrders(ChecksOf(m))}

\* variant: the loop does not stop at the first successful check
RECURSIVE CountAllFailures(_, _)
CountAllFailures(recentChecks, i) ==
  IF i > Len(recentChecks) THEN 0
  ELSE (IF checks[recentChecks[i]].status = "up" THEN 0 ELSE 1)
         + CountAllFailures(recentChecks, i + 1)

\* the loop of getConsecutiveFailureCount over one answer
RECURSIVE CountLeadingFailures(_, _)
CountLeadingFailures(recentChecks, i) ==
  IF i > Len(recentChecks) THEN 0
  ELSE IF checks[recentChecks[i]].status = "up" THEN 0
  ELSE 1 + CountLeadingFailures(recentChecks, i + 1)

getConsecutiveFailureCount(m) ==
  {CountLeadingFailures(rc, 1) : rc \in getRecentChecks(m, RecentChecksLimit)}

ActiveIncidents(m) ==
  {i \in DOMAIN incidents :
      incidents[i].monitorId = m /\ incidents[i].resolvedAt = NULL}

\* variant: the newest incident of the monitor, resolved or not
getLatestIncident(m) ==
  LET all == {i \in DOMAIN incidents : incidents[i].monitorId = m}
  IN  IF all = {} THEN {NULL}
      ELSE {i \in all : \A j \in all :
               incidents[i].startedAt >= incidents[j].startedAt}

\* IncidentRepository.getActiveIncident: ORDER BY started_at DESC LIMIT 1
getActiveIncident(m) ==
  IF ActiveIncidents(m) = {} THEN {NULL}
  ELSE {i \in ActiveIncidents(m) : \A j \in ActiveIncidents(m) :
            incidents[i].startedAt >= incidents[j].startedAt}

\* error is the set of marker substrings the error text contains
determineSeverity(error) ==
  IF "timeout" \in error \/ "ECONNREFUSED" \in error THEN "major"
  ELSE IF "DNS" \in error \/ "certificate" \in error THEN "critical"
  ELSE "minor"

(***************************************************************************)
(* Initial state of the detector                                           *)
(***************************************************************************)
NoResult == [monitorId |-> NULL, success |-> TRUE, timestamp |-> 0, error |-> {}]

DailyWindow ==
  [type |-> "daily", start_time |-> <<9, 2>>, end_time |-> <<9, 4>>]
OvernightWindow ==
  [type |-> "daily", start_time |-> <<23, 0>>, end_time |-> <<9, 3>>]
FixedWindow(m) ==
  [id |-> 1, monitorId |-> m, startTime |-> ClockStart + 1,
   endTime |-> ClockStart + 2]

\* the maintenance configurations a behaviour starts from
MaintenanceScenarios ==
  { [cache |-> [m \in ConfigIds |-> <<>>], table |-> {}],
    [cache |-> [m \in ConfigIds |-> IF m = 1 THEN <<DailyWindow>> ELSE <<>>],
     table |-> {}],
    [cache |-> [m \in ConfigIds |-> IF m = 1 THEN <<OvernightWindow>> ELSE <<>>],
     table |-> {}],
    [cache |-> [m \in ConfigIds |-> <<>>], table |-> {FixedWindow(1)}],
    [cache |-> [m \in ConfigIds |-> <<>>], table |-> {FixedWindow(NULL)}] }

DetectorInit ==
  /\ now = ClockStart
  /\ checks = <<>>
  /\ incidents = <<>>
  /\ \E sc \in MaintenanceScenarios :
        /\ recurringMaintenanceCache = sc.cache
        /\ maintenance_windows = sc.table
  /\ wpc = [w \in Workers |-> "idle"]
  /\ result = [w \in Workers |-> NoResult]
  /\ checkId = [w \in Workers |-> NULL]
  /\ maintenanceStatus = [w \in Workers |-> FALSE]
  /\ activeIncident = [w \in Workers |-> NULL]
  /\ consecutiveFailures = [w \in Workers |-> 0]
  /\ handed = [m \in Monitors |-> 0]

(***************************************************************************)
(* The job handler: MonitorRunner.runCheck, then processCheckResult step   *)
(* by step (one action per await)                                          *)
(***************************************************************************)
RECURSIVE Sum(_, _)
Sum(f, S) ==
  IF S = {} THEN 0
  ELSE LET x == CHOOSE y \in S : TRUE IN f[x] + Sum(f, S \ {x})

Started == Sum(handed, Monitors)

FailureErrors == {{"timeout"}}

\* the job slots of the worker are interchangeable: a claimed job runs in
\* the first free one
FirstFree(w) == \A v \in Workers : wpc[v] = "idle" => w <= v

\* the worker claims a job of monitor m; runCheck returns the result
RunCheck(w, m, success, error) ==
  /\ wpc[w] = "idle"
  /\ FirstFree(w)
  /\ result' = [result EXCEPT ![w] =
        [monitorId |-> m, success |-> success, timestamp |-> now, error |-> error]]
  /\ wpc' = [wpc EXCEPT ![w] = "save"]
  /\ handed' = [handed EXCEPT ![m] = @ + 1]
  /\ UNCHANGED <<now, checks, incidents, maintenance_windows,
                 recurringMaintenanceCache, checkId, maintenanceStatus,
                 activeIncident, consecutiveFailures>>

CheckInputs ==
  {<<TRUE, {}>>} \cup {<<FALSE, e>> : e \in FailureErrors}

\* the worker pool: a job of a monitor may start while an earlier job of
\* the same monitor is still running
WorkerRunCheck(w) ==
  /\ Started < MaxChecks
  /\ \E m \in Monitors, in \in CheckInputs : RunCheck(w, m, in[1], in[2])

InFlight(m) == {w \in Workers : wpc[w] # "idle" /\ result[w].monitorId = m}

\* jobs of one monitor that run one after another: the next one starts
\* after the previous one has completed, at a later instant (the interval
\* of a monitor is at least 10 seconds)
SerialRunCheck(w) ==
  /\ Started < MaxSerialChecks
  /\ \E m \in Monitors, in \in CheckInputs :
        /\ InFlight(m) = {}
        /\ \A i \in ChecksOf(m) : checks[i].checkedAt < now
        /\ RunCheck(w, m, in[1], in[2])

\* a job that starts after the overlapping ones, when every earlier job has
\* completed; no job starts while it runs
LoneRunCheck(w) ==
  /\ Started >= MaxChecks
  /\ Started < MaxChecks + MaxLoneChecks
  /\ \A v \in Workers : wpc[v] = "idle"
  /\ \E m \in Monitors, in \in CheckInputs : RunCheck(w, m, in[1], in[2])

\* the words determineSeverity looks for in the error of a result; an
\* error is modelled by the set of these words it contains (none of them
\* also when the error is absent)
ErrorWords == {"timeout", "ECONNREFUSED", "DNS", "certificate"}

\* the monitors have recovered: once the jobs with mixed results are over
\* every later job succeeds, the jobs running one after another; a monitor
\* is handed successes until it has MaxChecks rows with status up, so at
\* least as many successes as it can have opened incidents
RecoveryRunCheck(w) ==
  /\ Started >= MaxChecks
  /\ \A v \in Workers : wpc[v] = "idle"
  /\ \E m \in Monitors :
        /\ Cardinality({i \in ChecksOf(m) : checks[i].status = "up"}) < MaxChecks
        /\ RunCheck(w, m, TRUE, {})

\* jobs that run one after another and fail with any error
FailingRunCheck(w) ==
  /\ Started < MaxChecks
  /\ \E m \in Monitors, error \in SUBSET ErrorWords :
        /\ InFlight(m) = {}
        /\ \A i \in ChecksOf(m) : checks[i].checkedAt < now
        /\ RunCheck(w, m, FALSE, error)

\* variant: the maintenance oracle is asked first and a result inside a
\* window is dropped without a check row
SaveCheckOutsideMaintenance(w) ==
  /\ wpc[w] = "save"
  /\ IF result[w].monitorId = NULL \/ isInMaintenance(result[w].monitorId, now)
     THEN /\ wpc' = [wpc EXCEPT ![w] = "done"]
          /\ UNCHANGED <<checks, checkId>>
     ELSE /\ checks' = Append(checks,
                [monitorId |-> result[w].monitorId,
                 status    |-> IF result[w].success THEN "up" ELSE "down",
                 checkedAt |-> result[w].timestamp,
                 inMaintenance |-> "unknown"])
          /\ checkId' = [checkId EXCEPT ![w] = Len(checks) + 1]
          /\ wpc' = [wpc EXCEPT ![w] = "maintenance"]
  /\ UNCHANGED <<now, incidents, maintenance_windows, recurringMaintenanceCache,
                 result, maintenanceStatus, activeIncident, consecutiveFailures,
                 handed>>

\* await CheckRepository.saveCheck(result)
SaveCheck(w) ==
  /\ wpc[w] = "save"
  /\ IF result[w].monitorId = NULL
     THEN /\ wpc' = [wpc EXCEPT ![w] = "done"]
          /\ UNCHANGED <<checks, checkId>>
     ELSE /\ checks' = Append(checks,
                [monitorId |-> result[w].monitorId,
                 status    |-> IF result[w].success THEN "up" ELSE "down",
                 checkedAt |-> result[w].timestamp,
                 inMaintenance |-> "unknown"])
          /\ checkId' = [checkId EXCEPT ![w] = Len(checks) + 1]
          /\ wpc' = [wpc EXCEPT ![w] = "maintenance"]
  /\ UNCHANGED <<now, incidents, maintenance_windows, recurringMaintenanceCache,
                 result, maintenanceStatus, activeIncident, consecutiveFailures,
                 handed>>

\* variant: the answer of the oracle is recorded but the handler does not
\* return on it
CheckMaintenanceNoReturn(w) ==
  /\ wpc[w] = "maintenance"
  /\ LET inM == isInMaintenance(result[w].monitorId, now)
     IN  /\ maintenanceStatus' = [maintenanceStatus EXCEPT ![w] = inM]
         /\ checks' = [checks EXCEPT ![checkId[w]].inMaintenance =
                          IF inM THEN "yes" ELSE "no"]
         /\ wpc' = [wpc EXCEPT ![w] = "getActive"]
  /\ UNCHANGED <<now, incidents, maintenance_windows, recurringMaintenanceCache,
                 result, checkId, activeIncident, consecutiveFailures, handed>>

\* await MaintenanceRepository.isInMaintenance(result.monitorId); the row
\* remembers the answer given for its result
CheckMaintenance(w) ==
  /\ wpc[w] = "maintenance"
  /\ LET inM == isInMaintenance(result[w].monitorId, now)
     IN  /\ maintenanceStatus' = [maintenanceStatus EXCEPT ![w] = inM]
         /\ checks' = [checks EXCEPT ![checkId[w]].inMaintenance =
                          IF inM THEN "yes" ELSE "no"]
         /\ wpc' = [wpc EXCEPT ![w] = IF inM THEN "done" ELSE "getActive"]
  /\ UNCHANGED <<now, incidents, maintenance_windows, recurringMaintenanceCache,
                 result, checkId, activeIncident, consecutiveFailures, handed>>

\* variant: a failure result goes on to count the recent failures whether
\* or not an incident of the monitor is active
GetActiveIncidentIgnored(w) ==
  /\ wpc[w] = "getActive"
  /\ \E a \in getActiveIncident(result[w].monitorId) :
        /\ activeIncident' = [activeIncident EXCEPT ![w] = a]
        /\ wpc' = [wpc EXCEPT ![w] =
              IF result[w].success
              THEN (IF a # NULL THEN "resolve" ELSE "done")
              ELSE "count"]
  /\ UNCHANGED <<now, checks, incidents, maintenance_windows,
                 recurringMaintenanceCache, result, checkId, maintenanceStatus,
                 consecutiveFailures, handed>>

\* await IncidentRepository.getActiveIncident(result.monitorId)
GetActiveIncident(w) ==
  /\ wpc[w] = "getActive"
  /\ \E a \in getActiveIncident(result[w].monitorId) :
        /\ activeIncident' = [activeIncident EXCEPT ![w] = a]
        /\ wpc' = [wpc EXCEPT ![w] =
              IF result[w].success
              THEN (IF a # NULL THEN "resolve" ELSE "done")
              ELSE (IF a = NULL THEN "count" ELSE "done")]
  /\ UNCHANGED <<now, checks, incidents, maintenance_windows,
                 recurringMaintenanceCache, result, checkId, maintenanceStatus,
                 consecutiveFailures, handed>>

\* variant: the update sets the status and leaves resolved_at alone
ResolveIncidentStatusOnly(w) ==
  /\ wpc[w] = "resolve"
  /\ incidents' = [incidents EXCEPT ![activeIncident[w]] =
        [@ EXCEPT !.status = "resolved"]]
  /\ wpc' = [wpc EXCEPT ![w] = "done"]
  /\ UNCHANGED <<now, checks, maintenance_windows, recurringMaintenanceCache,
                 result, checkId, maintenanceStatus, activeIncident,
                 consecutiveFailures, handed>>

\* await IncidentRepository.resolveIncident(activeIncident.id)
ResolveIncident(w) ==
  /\ wpc[w] = "resolve"
  /\ incidents' = [incidents EXCEPT ![activeIncident[w]] =
        [@ EXCEPT !.status = "resolved", !.resolvedAt = now]]
  /\ wpc' = [wpc EXCEPT ![w] = "done"]
  /\ UNCHANGED <<now, checks, maintenance_windows, recurringMaintenanceCache,
                 result, checkId, maintenanceStatus, activeIncident,
                 consecutiveFailures, handed>>

\* await this.getConsecutiveFailureCount(result.monitorId)
GetConsecutiveFailureCount(w) ==
  /\ wpc[w] = "count"
  /\ \E c \in getConsecutiveFailureCount(result[w].monitorId) :
        /\ consecutiveFailures' = [consecutiveFailures EXCEPT ![w] = c]
        /\ wpc' = [wpc EXCEPT ![w] =
              IF c >= FAILURE_THRESHOLD THEN "create" ELSE "done"]
  /\ UNCHANGED <<now, checks, incidents, maintenance_windows,
                 recurringMaintenanceCache, result, checkId, maintenanceStatus,
                 activeIncident, handed>>

\* await IncidentRepository.createIncident(monitorId, monitorName, severity)
CreateIncident(w) ==
  /\ wpc[w] = "create"
  /\ incidents' = Append(incidents,
        [monitorId  |-> result[w].monitorId,
         status     |-> "investigating",
         severity   |-> determineSeverity(result[w].error),
         startedAt  |-> now,
         resolvedAt |-> NULL])
  /\ wpc' = [wpc EXCEPT ![w] = "done"]
  /\ UNCHANGED <<now, checks, maintenance_windows, recurringMaintenanceCache,
                 result, checkId, maintenanceStatus, activeIncident,
                 consecutiveFailures, handed>>

\* processCheckResult has returned; the job completes
JobCompleted(w) ==
  /\ wpc[w] = "done"
  /\ wpc' = [wpc EXCEPT ![w] = "idle"]
  /\ result' = [result EXCEPT ![w] = NoResult]
  /\ checkId' = [checkId EXCEPT ![w] = NULL]
  /\ maintenanceStatus' = [maintenanceStatus EXCEPT ![w] = FALSE]
  /\ activeIncident' = [activeIncident EXCEPT ![w] = NULL]
  /\ consecutiveFailures' = [consecutiveFailures EXCEPT ![w] = 0]
  /\ UNCHANGED <<now, checks, incidents, maintenance_windows,
                 recurringMaintenanceCache, handed>>

\* time passes
Tick ==
  /\ now < ClockStart + MaxTime
  /\ now' = now + 1
  /\ UNCHANGED <<checks, incidents, maintenance_windows,
                 recurringMaintenanceCache, wpc, result, checkId,
                 maintenanceStatus, activeIncident, consecutiveFailures, handed>>

ProcessStep(w) ==
  \/ SaveCheck(w)
  \/ CheckMaintenance(w)
  \/ GetActiveIncident(w)
  \/ ResolveIncident(w)
  \/ GetConsecutiveFailureCount(w)
  \/ CreateIncident(w)
  \/ JobCompleted(w)

(***************************************************************************)
(* MonitorRunner.runChecks                                                 *)
(***************************************************************************)
\* bounds: length of the monitor list and the concurrency argument
MaxMonitors == 3
MaxConcurrency == 3

VARIABLES
  monitorList,     \* argument monitors: the list <<1, ..., N>>
  concurrency,     \* argument concurrency
  throwing,        \* the monitors whose probe raises an exception
  queue,           \* local queue: the monitors not yet taken
  chains,          \* the runNext calls of activePromises
  results,         \* local results
  probed,          \* per monitor: how often its probe was invoked
  call             \* state of the runChecks call

runnerVars == <<monitorList, concurrency, throwing, queue, chains, results,
                probed, call>>

ChainIds == 1..MaxConcurrency

NoCheckResult == [monitor |-> NULL, success |-> FALSE]

NoChain == [pc |-> "none", monitor |-> NULL, result |-> NoCheckResult]

RunnerIdle ==
  /\ monitorList = <<>>
  /\ concurrency = 1
  /\ throwing = {}
  /\ queue = <<>>
  /\ chains = [c \in ChainIds |-> NoChain]
  /\ results = <<>>
  /\ probed = [m \in 1..MaxMonitors |-> 0]
  /\ call = "idle"

\* runChecks is about to be called with N monitors and a concurrency k >= 1
RunnerInit ==
  /\ \E n \in 0..MaxMonitors : monitorList = [i \in 1..n |-> i]
  /\ concurrency \in 1..MaxConcurrency
  /\ throwing \in SUBSET Range(monitorList)
  /\ queue = <<>>
  /\ chains = [c \in ChainIds |-> NoChain]
  /\ results = <<>>
  /\ probed = [m \in 1..MaxMonitors |-> 0]
  /\ call = "idle"

InFlightProbes == {c \in ChainIds : chains[c].pc = "probing"}

\* variant: the initial batch takes every monitor, whatever the concurrency
StartRunChecksUnbounded ==
  /\ call = "idle"
  /\ LET initialBatchSize == Len(monitorList)
     IN  /\ chains' = [c \in ChainIds |->
               IF c <= initialBatchSize
               THEN [pc |-> "probing", monitor |-> monitorList[c], result |-> NoCheckResult]
               ELSE NoChain]
         /\ queue' = SubSeq(monitorList, initialBatchSize + 1, Len(monitorList))
         /\ probed' = [m \in 1..MaxMonitors |->
               IF m \in {monitorList[c] : c \in 1..initialBatchSize}
               THEN probed[m] + 1 ELSE probed[m]]
  /\ results' = <<>>
  /\ call' = "awaiting"
  /\ UNCHANGED <<monitorList, concurrency, throwing>>

\* runChecks up to await Promise.all: the loop starts the initial batch of
\* runNext calls; each takes the head of the queue and invokes its probe
\* (runCheck runs synchronously up to the probe's first await)
StartRunChecks ==
  /\ call = "idle"
  /\ LET initialBatchSize == Min(concurrency, Len(monitorList))
     IN  /\ chains' = [c \in ChainIds |->
               IF c <= initialBatchSize
               THEN [pc |-> "probing", monitor |-> monitorList[c], result |-> NoCheckResult]
               ELSE NoChain]
         /\ queue' = SubSeq(monitorList, initialBatchSize + 1, Len(monitorList))
         /\ probed' = [m \in 1..MaxMonitors |->
               IF m \in {monitorList[c] : c \in 1..initialBatchSize}
               THEN probed[m] + 1 ELSE probed[m]]
  /\ results' = <<>>
  /\ call' = "awaiting"
  /\ UNCHANGED <<monitorList, concurrency, throwing>>

\* runCheck: the probe of the chain's monitor returns a result; runCheck has
\* no try/catch around the probe
ProbeReturns(c, success) ==
  /\ chains[c].pc = "probing"
  /\ chains[c].monitor \notin throwing
  /\ chains' = [chains EXCEPT ![c] =
        [@ EXCEPT !.pc = "resumed",
                  !.result = [monitor |-> chains[c].monitor, success |-> success]]]
  /\ UNCHANGED <<monitorList, concurrency, throwing, queue, results, probed, call>>

\* the probe raises: runCheck rejects, so does the runNext chain that awaits
\* it, and Promise.all rejects with the first rejection
ProbeThrows(c) ==
  /\ chains[c].pc = "probing"
  /\ chains[c].monitor \in throwing
  /\ chains' = [chains EXCEPT ![c] = [@ EXCEPT !.pc = "rejected"]]
  /\ call' = IF call = "awaiting" THEN "rejected" ELSE call
  /\ UNCHANGED <<monitorList, concurrency, throwing, queue, results, probed>>

\* runNext after await this.runCheck: push the result; if the queue is not
\* empty call runNext again, which takes the head and invokes its probe
RunNextResumes(c) ==
  /\ chains[c].pc = "resumed"
  /\ results' = Append(results, chains[c].result)
  /\ IF Len(queue) > 0
     THEN /\ chains' = [chains EXCEPT ![c] =
                [pc |-> "probing", monitor |-> Head(queue), result |-> NoCheckResult]]
          /\ queue' = Tail(queue)
          /\ probed' = [probed EXCEPT ![Head(queue)] = @ + 1]
     ELSE /\ chains' = [chains EXCEPT ![c] = [@ EXCEPT !.pc = "fulfilled"]]
          /\ UNCHANGED <<queue, probed>>
  /\ UNCHANGED <<monitorList, concurrency, throwing, call>>

\* await Promise.all(activePromises) resumes; return results
RunChecksReturns ==
  /\ call = "awaiting"
  /\ \A c \in ChainIds : chains[c].pc \in {"none", "fulfilled"}
  /\ call' = "returned"
  /\ UNCHANGED <<monitorList, concurrency, throwing, queue, chains, results, probed>>

(***************************************************************************)
(* State of the queue, the worker and the signal handler                   *)
(***************************************************************************)
\* bounds: interval ticks, and change events while the scheduler runs, in
\* one behaviour
MaxTicks == 2
MaxSchedulerReloads == 1

VARIABLES
  waiting,       \* the wait list of monitorQueue: fired jobs not yet claimed
  claimed,       \* per worker slot: the job it has claimed (at most one)
  ticks,         \* interval ticks so far
  handedTicks,   \* ticks whose result was passed to processCheckResult
  thrownTicks,   \* ticks whose runCheck rejected
  spc,           \* position of the signal handler
  resources,     \* state of monitorWorker, monitorQueue and the connection
  exitCode       \* {} while the process runs, {c} after process.exit(c)

schedRest == <<claimed, ticks, handedTicks, thrownTicks, spc, resources,
               exitCode>>
schedVars == <<waiting, schedRest>>

(***************************************************************************)
(* Configuration reload: the change handler of the config watcher,         *)
(* MonitorRepository.syncMonitors and reloadMonitors / scheduleMonitors    *)
(***************************************************************************)
\* bounds: reloads and edits of monitors.yml in one behaviour
MaxReloads == 3
MaxEdits == 2

VARIABLES
  appFile,          \* config.yml on disk: valid or not, and its content
  appConfig,        \* ConfigLoader.appConfig (null when not loaded)
  file,             \* monitors.yml on disk: valid or not, and its list
  monitorsConfig,   \* ConfigLoader.monitorsConfig (null when not loaded)
  monitorsTable,    \* table monitors (committed rows)
  windowSeq,        \* last id handed out for maintenance_windows
  repeatableJobs,   \* the repeatable jobs of monitorQueue
  hpc,              \* position of the change handler
  syncList,         \* handler: the list passed to syncMonitors
  jobsToRemove,     \* reloadMonitors: answer of getRepeatableJobs not yet removed
  scheduleList,     \* scheduleMonitors: config.monitors
  scheduleIndex,    \* scheduleMonitors: loop index i (0-based)
  reloads,          \* change events handled so far
  edits,            \* edits of monitors.yml so far
  previous          \* outcome of the last reload that completed

reloadVars == <<appFile, appConfig, file, monitorsConfig, monitorsTable, windowSeq, repeatableJobs,
                hpc, syncList, jobsToRemove, scheduleList, scheduleIndex,
                reloads, edits, previous>>

OneTimeWindow ==
  [type |-> "one-time", start |-> ClockStart + 1, end |-> ClockStart + 2]

MonitorApi ==
  [id |-> 1, name |-> "api", group |-> "core", type |-> "http",
   url |-> "http://api", interval |-> 10, public |-> TRUE,
   maintenance |-> <<>>]
MonitorApiMaintained ==
  [MonitorApi EXCEPT !.interval = 20, !.url = "http://api2",
                     !.public = FALSE,
                     !.maintenance = <<DailyWindow, OneTimeWindow>>]
MonitorWeb ==
  [id |-> 2, name |-> "web", group |-> "edge", type |-> "tcp",
   url |-> "web:443", interval |-> 30, public |-> FALSE,
   maintenance |-> <<OvernightWindow>>]
MonitorDb ==
  [id |-> 3, name |-> "db", group |-> "core", type |-> "tcp",
   url |-> "db:5432", interval |-> 10, public |-> TRUE,
   maintenance |-> <<OneTimeWindow>>]

\* the monitor lists monitors.yml takes in a behaviour
ConfigLists ==
  { <<MonitorApi, MonitorWeb>>,
    <<MonitorApiMaintained>>,
    <<MonitorWeb, MonitorDb>>,
    <<MonitorApiMaintained, MonitorWeb>>,
    <<MonitorWeb, MonitorApi>> }

NoList == <<>>

\* the contents config.yml takes in a behaviour (its title stands for all
\* of its settings)
AppTitles == {"a", "b"}

NoAppConfig == [loaded |-> FALSE, title |-> ""]
NoMonitorsConfig == [loaded |-> FALSE, monitors |-> NoList]

\* variant: INSERT ... ON CONFLICT (id) DO NOTHING
UpsertMonitorKeepRow(table, monitor) ==
  IF \E r \in table : r.id = monitor.id
  THEN table
  ELSE table \cup {[id |-> monitor.id, name |-> monitor.name,
                    group |-> monitor.group, type |-> monitor.type,
                    url |-> monitor.url, public |-> monitor.public,
                    updated_at |-> now]}

\* INSERT ... ON CONFLICT (id) DO UPDATE SET name, "group", type, url,
\* updated_at = NOW(); public is written by the INSERT only
UpsertMonitor(table, monitor) ==
  IF \E r \in table : r.id = monitor.id
  THEN {IF r.id = monitor.id
        THEN [r EXCEPT !.name = monitor.name, !.group = monitor.group,
                       !.type = monitor.type, !.url = monitor.url,
                       !.updated_at = now]
        ELSE r : r \in table}
  ELSE table \cup {[id |-> monitor.id, name |-> monitor.name,
                    group |-> monitor.group, type |-> monitor.type,
                    url |-> monitor.url, public |-> monitor.public,
                    updated_at |-> now]}

MinOf(S) == CHOOSE x \in S : \A y \in S : x <= y

\* variant: the window is inserted without looking for an existing row
UpsertWindowAlwaysInsert(st, monitorId, window) ==
  IF \A r \in st.committed : r.id # monitorId
  THEN [st EXCEPT !.failed = TRUE]
  ELSE [st EXCEPT
          !.windows = @ \cup {[id |-> st.seq + 1, monitorId |-> monitorId,
                               startTime |-> window.start,
                               endTime |-> window.end]},
          !.seq = @ + 1]

\* MaintenanceRepository.upsertMaintenanceWindow, run on the pool and not on
\* the connection of the open transaction: it sees the committed monitors
\* only, and the foreign key of a new row needs a committed monitor
upsertMaintenanceWindow(st, monitorId, window) ==
  LET existing == {r \in st.windows :
                     r.monitorId = monitorId /\ r.startTime = window.start}
  IN  IF existing # {}
      THEN LET first == MinOf({r.id : r \in existing})
           IN  [st EXCEPT !.windows =
                  {IF r.id = first THEN [r EXCEPT !.endTime = window.end] ELSE r
                     : r \in st.windows}]
      ELSE IF \A r \in st.committed : r.id # monitorId
      THEN [st EXCEPT !.failed = TRUE]
      ELSE [st EXCEPT
              !.windows = @ \cup {[id |-> st.seq + 1, monitorId |-> monitorId,
                                   startTime |-> window.start,
                                   endTime |-> window.end]},
              !.seq = @ + 1]

\* MaintenanceRepository.syncFromConfig: only current or future windows
RECURSIVE syncFromConfig(_, _, _, _)
syncFromConfig(st, monitorId, maintenanceWindows, k) ==
  IF k > Len(maintenanceWindows) \/ st.failed THEN st
  ELSE syncFromConfig(
         IF maintenanceWindows[k].end >= now
         THEN upsertMaintenanceWindow(st, monitorId, maintenanceWindows[k])
         ELSE st,
         monitorId, maintenanceWindows, k + 1)

\* the body of the loop over the monitors of syncMonitors
SyncOneMonitor(st, monitor) ==
  LET upserted == [st EXCEPT !.table = UpsertMonitor(st.table, monitor)]
      oneTimeWindows ==
        SelectSeq(monitor.maintenance, LAMBDA m : m.type # "daily")
      recurringWindows ==
        SelectSeq(monitor.maintenance, LAMBDA m : m.type = "daily")
      afterOneTime ==
        IF Len(oneTimeWindows) > 0
        THEN syncFromConfig(upserted, monitor.id, oneTimeWindows, 1)
        ELSE upserted
  IN  IF afterOneTime.failed THEN afterOneTime
      ELSE IF Len(recurringWindows) > 0
      THEN [afterOneTime EXCEPT !.cache[monitor.id] = recurringWindows]
      ELSE afterOneTime

RECURSIVE SyncLoop(_, _, _)
SyncLoop(st, monitors, i) ==
  IF i > Len(monitors) \/ st.failed THEN st
  ELSE SyncLoop(SyncOneMonitor(st, monitors[i]), monitors, i + 1)

\* MonitorRepository.syncMonitors as a whole. The monitors are written in a
\* transaction; the maintenance windows and the recurring map are not part
\* of it. On an error the transaction is rolled back.
syncMonitors(monitors) ==
  LET start == [table |-> monitorsTable, committed |-> monitorsTable,
                windows |-> maintenance_windows,
                cache |-> recurringMaintenanceCache, seq |-> windowSeq,
                failed |-> FALSE]
      looped == SyncLoop(start, monitors, 1)
      configIds == {monitors[i].id : i \in DOMAIN monitors}
      deleted == {r.id : r \in looped.table} \ configIds
  IN  IF looped.failed
      THEN [looped EXCEPT !.table = monitorsTable]
      ELSE [looped EXCEPT
              !.table = {r \in @ : r.id \in configIds},
              !.windows = {r \in @ : r.monitorId \notin deleted}]

\* the repeatable job scheduleMonitors adds for monitors[i] (i 0-based)
RepeatableJob(monitor, i) ==
  [name |-> monitor.name, jobId |-> i + 1, every |-> monitor.interval * 1000,
   monitor |-> monitor, monitorId |-> i + 1]

JobKey(job) == <<job.name, job.jobId, job.every>>

\* monitorQueue.add with a repeat option: one repeatable job per key
AddRepeatable(jobs, job) ==
  {j \in jobs : JobKey(j) # JobKey(job)} \cup {job}

ScheduledJobs(monitors) ==
  {RepeatableJob(monitors[i + 1], i) : i \in 0..(Len(monitors) - 1)}

NoPrevious ==
  [valid |-> FALSE, list |-> NoList, monitors |-> {}, windows |-> {},
   cache |-> [m \in ConfigIds |-> <<>>], jobs |-> {}]

\* what a reload leaves behind
Outcome(list) ==
  [valid |-> TRUE, list |-> list, monitors |-> monitorsTable,
   windows |-> maintenance_windows, cache |-> recurringMaintenanceCache,
   jobs |-> repeatableJobs]

ReloadIdle ==
  /\ appFile = [valid |-> TRUE, title |-> "a"]
  /\ appConfig = NoAppConfig
  /\ file = [valid |-> TRUE, monitors |-> NoList]
  /\ monitorsConfig = NoMonitorsConfig
  /\ monitorsTable = {}
  /\ windowSeq = 0
  /\ repeatableJobs = {}
  /\ hpc = "idle"
  /\ syncList = NoList
  /\ jobsToRemove = {}
  /\ scheduleList = NoList
  /\ scheduleIndex = 0
  /\ reloads = 0
  /\ edits = 0
  /\ previous = NoPrevious

\* the server has started with a list whose monitors were new to the
\* database: index.ts has synced it and scheduled its jobs
ReloadInit ==
  /\ now = ClockStart
  /\ appFile = [valid |-> TRUE, title |-> "a"]
  /\ appConfig = [loaded |-> TRUE, title |-> "a"]
  /\ \E list \in ConfigLists :
        /\ file = [valid |-> TRUE, monitors |-> list]
        /\ monitorsConfig = [loaded |-> TRUE, monitors |-> list]
        /\ LET st == [table |-> {}, committed |-> {}, windows |-> {},
                      cache |-> [m \in ConfigIds |-> <<>>], seq |-> 0,
                      failed |-> FALSE]
               synced == SyncLoop(st, list, 1)
           IN  /\ monitorsTable = IF synced.failed THEN {} ELSE synced.table
               /\ maintenance_windows = synced.windows
               /\ recurringMaintenanceCache = synced.cache
               /\ windowSeq = synced.seq
               /\ repeatableJobs =
                     IF synced.failed THEN {} ELSE ScheduledJobs(list)
  /\ hpc = "idle"
  /\ syncList = NoList
  /\ jobsToRemove = {}
  /\ scheduleList = NoList
  /\ scheduleIndex = 0
  /\ reloads = 0
  /\ edits = 0
  /\ previous = NoPrevious

reloadFrame == <<checks, incidents, wpc, result, checkId, maintenanceStatus,
                 activeIncident, consecutiveFailures, handed>>

\* monitors.yml is rewritten
EditFile ==
  /\ edits < MaxEdits
  /\ edits' = edits + 1
  /\ \/ \E list \in ConfigLists : file' = [valid |-> TRUE, monitors |-> list]
     \/ file' = [valid |-> FALSE, monitors |-> NoList]
  /\ UNCHANGED <<now, maintenance_windows, recurringMaintenanceCache, appFile,
                 appConfig, monitorsConfig, monitorsTable, windowSeq,
                 repeatableJobs, hpc, syncList, jobsToRemove, scheduleList,
                 scheduleIndex, reloads, previous>>

\* config.yml is rewritten
EditAppFile ==
  /\ edits < MaxEdits
  /\ edits' = edits + 1
  /\ \/ \E title \in AppTitles : appFile' = [valid |-> TRUE, title |-> title]
     \/ appFile' = [valid |-> FALSE, title |-> ""]
  /\ appFile' # appFile
  /\ UNCHANGED <<now, maintenance_windows, recurringMaintenanceCache, file,
                 appConfig, monitorsConfig, monitorsTable, windowSeq,
                 repeatableJobs, hpc, syncList, jobsToRemove, scheduleList,
                 scheduleIndex, reloads, previous>>

\* the change handler is not running
HandlerAtRest == hpc \in {"idle", "invalid"}

\* variant: the cached configuration is dropped before the files are
\* validated
ValidateAfterDrop ==
  /\ HandlerAtRest
  /\ reloads < MaxReloads
  /\ reloads' = reloads + 1
  /\ hpc' = IF appFile.valid /\ file.valid THEN "validated" ELSE "invalid"
  /\ appConfig' = NoAppConfig
  /\ monitorsConfig' = NoMonitorsConfig
  /\ UNCHANGED <<now, maintenance_windows, recurringMaintenanceCache, appFile,
                 file, monitorsTable, windowSeq, repeatableJobs,
                 syncList, jobsToRemove, scheduleList, scheduleIndex, edits,
                 previous>>

\* a change event of one of the two watched files:
\* ConfigLoader.validateConfigs parses config.yml and monitors.yml and
\* assigns nothing; when it throws the handler ends in its catch
ValidateConfigs ==
  /\ HandlerAtRest
  /\ reloads < MaxReloads
  /\ reloads' = reloads + 1
  /\ hpc' = IF appFile.valid /\ file.valid THEN "validated" ELSE "invalid"
  /\ UNCHANGED <<now, maintenance_windows, recurringMaintenanceCache, appFile,
                 appConfig, file, monitorsConfig, monitorsTable, windowSeq,
                 repeatableJobs, syncList, jobsToRemove, scheduleList,
                 scheduleIndex, edits, previous>>

\* ConfigLoader.reloadConfigs and getMonitorsConfig: both cached configs are
\* dropped, then config.yml and monitors.yml are read again in this order;
\* when a read throws the handler ends in its catch
ReloadConfigs ==
  /\ hpc = "validated"
  /\ appConfig' = IF appFile.valid
                  THEN [loaded |-> TRUE, title |-> appFile.title]
                  ELSE NoAppConfig
  /\ IF appFile.valid /\ file.valid
     THEN /\ monitorsConfig' = [loaded |-> TRUE, monitors |-> file.monitors]
          /\ syncList' = file.monitors
          /\ hpc' = "sync"
          /\ UNCHANGED previous
     ELSE /\ monitorsConfig' = NoMonitorsConfig
          /\ syncList' = NoList
          /\ hpc' = "idle"
          /\ previous' = NoPrevious
  /\ UNCHANGED <<now, maintenance_windows, recurringMaintenanceCache, appFile,
                 file, monitorsTable, windowSeq, repeatableJobs, jobsToRemove,
                 scheduleList, scheduleIndex, reloads, edits>>

\* await MonitorRepository.syncMonitors(monitorsConfig.monitors)
SyncMonitors ==
  /\ hpc = "sync"
  /\ LET st == syncMonitors(syncList)
     IN  /\ monitorsTable' = st.table
         /\ maintenance_windows' = st.windows
         /\ recurringMaintenanceCache' = st.cache
         /\ windowSeq' = st.seq
         /\ hpc' = IF st.failed THEN "idle" ELSE "getRepeatable"
         /\ previous' = IF st.failed THEN NoPrevious ELSE previous
  /\ UNCHANGED <<appFile, appConfig>>
  /\ UNCHANGED <<now, file, monitorsConfig, repeatableJobs, syncList,
                 jobsToRemove, scheduleList, scheduleIndex, reloads, edits>>

\* reloadMonitors: await monitorQueue.getRepeatableJobs()
GetRepeatableJobs ==
  /\ hpc = "getRepeatable"
  /\ jobsToRemove' = repeatableJobs
  /\ hpc' = "remove"
  /\ UNCHANGED <<appFile, appConfig>>
  /\ UNCHANGED <<now, maintenance_windows, recurringMaintenanceCache, file,
                 monitorsConfig, monitorsTable, windowSeq, repeatableJobs,
                 syncList, scheduleList, scheduleIndex, reloads, edits, previous>>

\* variant: the loop over the repeatable jobs removes nothing
KeepRepeatable ==
  /\ hpc = "remove"
  /\ jobsToRemove' = {}
  /\ hpc' = IF jobsToRemove = {} THEN "drain" ELSE "remove"
  /\ UNCHANGED <<appFile, appConfig>>
  /\ UNCHANGED <<now, maintenance_windows, recurringMaintenanceCache, file,
                 monitorsConfig, monitorsTable, windowSeq, repeatableJobs,
                 syncList, scheduleList, scheduleIndex, reloads, edits, previous>>

\* reloadMonitors: one turn of the loop,
\* await monitorQueue.removeRepeatableByKey(job.key); after the last, drain
RemoveRepeatable ==
  /\ hpc = "remove"
  /\ IF jobsToRemove = {}
     THEN /\ hpc' = "drain"
          /\ UNCHANGED <<jobsToRemove, repeatableJobs>>
     ELSE \E job \in jobsToRemove :
            /\ repeatableJobs' = {j \in repeatableJobs : JobKey(j) # JobKey(job)}
            /\ jobsToRemove' = jobsToRemove \ {job}
            /\ hpc' = "remove"
  /\ UNCHANGED <<appFile, appConfig>>
  /\ UNCHANGED <<now, maintenance_windows, recurringMaintenanceCache, file,
                 monitorsConfig, monitorsTable, windowSeq, syncList,
                 scheduleList, scheduleIndex, reloads, edits, previous>>

\* reloadMonitors: await monitorQueue.drain() empties the wait list (the
\* repeatable jobs stay), then scheduleMonitors reads monitors.yml again
DrainAndLoad ==
  /\ hpc = "drain"
  /\ waiting' = {}
  /\ IF file.valid
     THEN /\ monitorsConfig' = [loaded |-> TRUE, monitors |-> file.monitors]
          /\ scheduleList' = file.monitors
          /\ scheduleIndex' = 0
          /\ hpc' = "schedule"
          /\ UNCHANGED previous
     ELSE /\ hpc' = "idle"
          /\ previous' = NoPrevious
          /\ UNCHANGED <<monitorsConfig, scheduleList, scheduleIndex>>
  /\ UNCHANGED <<appFile, appConfig>>
  /\ UNCHANGED <<now, maintenance_windows, recurringMaintenanceCache, file,
                 monitorsTable, windowSeq, repeatableJobs, syncList,
                 jobsToRemove, reloads, edits>>

\* scheduleMonitors: one turn of the loop, await monitorQueue.add(...)
ScheduleMonitor ==
  /\ hpc = "schedule"
  /\ IF scheduleIndex < Len(scheduleList)
     THEN /\ repeatableJobs' = AddRepeatable(repeatableJobs,
                RepeatableJob(scheduleList[scheduleIndex + 1], scheduleIndex))
          /\ scheduleIndex' = scheduleIndex + 1
          /\ hpc' = "schedule"
     ELSE /\ hpc' = "done"
          /\ UNCHANGED <<repeatableJobs, scheduleIndex>>
  /\ UNCHANGED <<appFile, appConfig>>
  /\ UNCHANGED <<now, maintenance_windows, recurringMaintenanceCache, file,
                 monitorsConfig, monitorsTable, windowSeq, syncList,
                 jobsToRemove, scheduleList, reloads, edits, previous>>

\* the list a completed reload has applied: the one it synced, if it is
\* also the one it scheduled
AppliedList ==
  IF syncList = scheduleList THEN [same |-> TRUE, list |-> syncList]
  ELSE [same |-> FALSE, list |-> NoList]

\* the handler logs the successful reload and returns
ReloadCompleted ==
  /\ hpc = "done"
  /\ hpc' = "idle"
  /\ previous' = IF AppliedList.same THEN Outcome(AppliedList.list)
                 ELSE NoPrevious
  /\ UNCHANGED <<appFile, appConfig>>
  /\ UNCHANGED <<now, maintenance_windows, recurringMaintenanceCache, file,
                 monitorsConfig, monitorsTable, windowSeq, repeatableJobs,
                 syncList, jobsToRemove, scheduleList, scheduleIndex, reloads,
                 edits>>

ReloadTick ==
  /\ now < ClockStart + MaxTime
  /\ now' = now + 1
  /\ UNCHANGED <<maintenance_windows, recurringMaintenanceCache, reloadVars>>

(***************************************************************************)
(* The scheduler: repeatable jobs fire, the worker claims and runs them;   *)
(* shutdown on SIGTERM / SIGINT                                            *)
(***************************************************************************)
SchedIdle ==
  /\ waiting = {}
  /\ claimed = [w \in Workers |-> {}]
  /\ ticks = 0
  /\ handedTicks = {}
  /\ thrownTicks = {}
  /\ spc = "running"
  /\ resources = [worker |-> "running", queue |-> "open", connection |-> "open"]
  /\ exitCode = {}

Exited == exitCode # {}

\* the interval of a repeatable job elapses: a job instance enters the wait
\* list
IntervalTick ==
  /\ ~Exited
  /\ resources.connection = "open"
  /\ ticks < MaxTicks
  /\ \E job \in repeatableJobs :
        waiting' = waiting \cup {[n |-> ticks + 1, job |-> job]}
  /\ ticks' = ticks + 1
  /\ UNCHANGED <<claimed, handedTicks, thrownTicks, spc, resources, exitCode>>

SlotFree(w) == wpc[w] = "idle" /\ claimed[w] = {}

\* a free slot of monitorWorker (the first one: the slots are
\* interchangeable) claims a waiting job and the processor calls
\* MonitorRunner.runCheck(monitor, monitorId)
ClaimJob(w) ==
  /\ ~Exited
  /\ resources.worker = "running"
  /\ SlotFree(w)
  /\ \A v \in Workers : SlotFree(v) => w <= v
  /\ \E t \in waiting :
        /\ waiting' = waiting \ {t}
        /\ claimed' = [claimed EXCEPT ![w] = {t}]
  /\ UNCHANGED <<ticks, handedTicks, thrownTicks, spc, resources, exitCode>>

\* runCheck resolves and the processor calls
\* IncidentDetector.processCheckResult(result)
HandResult(w) ==
  /\ ~Exited
  /\ wpc[w] = "idle"
  /\ \E t \in claimed[w], in \in CheckInputs :
        /\ t.n \notin handedTicks
        /\ result' = [result EXCEPT ![w] =
              [monitorId |-> t.job.monitorId, success |-> in[1],
               timestamp |-> now, error |-> in[2]]]
        /\ handed' = [handed EXCEPT ![t.job.monitorId] = @ + 1]
        /\ handedTicks' = handedTicks \cup {t.n}
  /\ wpc' = [wpc EXCEPT ![w] = "save"]
  /\ UNCHANGED <<now, checks, incidents, maintenance_windows,
                 recurringMaintenanceCache, checkId, maintenanceStatus,
                 activeIncident, consecutiveFailures>>
  /\ UNCHANGED <<waiting, claimed, ticks, thrownTicks, spc, resources, exitCode>>

\* variant: the catch of the processor logs the error and does not rethrow;
\* the job completes
JobFailsSilently(w) ==
  /\ ~Exited
  /\ wpc[w] = "idle"
  /\ \E t \in claimed[w] : t.n \notin handedTicks
  /\ claimed' = [claimed EXCEPT ![w] = {}]
  /\ UNCHANGED <<waiting, ticks, handedTicks, thrownTicks, spc, resources,
                 exitCode>>

\* runCheck rejects (its probe threw): the processor rethrows and the job
\* fails without a call of processCheckResult
JobFails(w) ==
  /\ ~Exited
  /\ wpc[w] = "idle"
  /\ \E t \in claimed[w] :
        /\ t.n \notin handedTicks
        /\ thrownTicks' = thrownTicks \cup {t.n}
  /\ claimed' = [claimed EXCEPT ![w] = {}]
  /\ UNCHANGED <<waiting, ticks, handedTicks, spc, resources, exitCode>>

\* a step of processCheckResult; when it has returned the job completes and
\* the slot is free again
JobStep(w) ==
  /\ ~Exited
  /\ claimed[w] # {}
  /\ \/ /\ \/ SaveCheck(w)
           \/ CheckMaintenance(w)
           \/ GetActiveIncident(w)
           \/ ResolveIncident(w)
           \/ GetConsecutiveFailureCount(w)
           \/ CreateIncident(w)
        /\ UNCHANGED claimed
     \/ /\ JobCompleted(w)
        /\ claimed' = [claimed EXCEPT ![w] = {}]
  /\ UNCHANGED <<waiting, ticks, handedTicks, thrownTicks, spc, resources,
                 exitCode>>

\* SIGTERM or SIGINT arrives: the handler starts with
\* await stopConfigWatcher()
Signal ==
  /\ spc = "running"
  /\ spc' = "stopWatcher"
  /\ UNCHANGED <<waiting, claimed, ticks, handedTicks, thrownTicks, resources,
                 exitCode>>

\* stopConfigWatcher has returned; shutdownQueue calls monitorWorker.close(),
\* which stops the worker from claiming
CloseWorker ==
  /\ spc = "stopWatcher"
  /\ spc' = "closeWorker"
  /\ resources' = [resources EXCEPT !.worker = "closing"]
  /\ UNCHANGED <<waiting, claimed, ticks, handedTicks, thrownTicks, exitCode>>

\* variant: the promise of monitorWorker.close() resolves while jobs are
\* still running
WorkerClosedAtOnce ==
  /\ spc = "closeWorker"
  /\ spc' = "closeQueue"
  /\ resources' = [resources EXCEPT !.worker = "closed"]
  /\ UNCHANGED <<waiting, claimed, ticks, handedTicks, thrownTicks, exitCode>>

\* the promise of monitorWorker.close() resolves when the jobs the worker
\* had claimed have finished
WorkerClosed ==
  /\ spc = "closeWorker"
  /\ \A w \in Workers : claimed[w] = {}
  /\ spc' = "closeQueue"
  /\ resources' = [resources EXCEPT !.worker = "closed"]
  /\ UNCHANGED <<waiting, claimed, ticks, handedTicks, thrownTicks, exitCode>>

\* await monitorQueue.close()
QueueClosed ==
  /\ spc = "closeQueue"
  /\ spc' = "quit"
  /\ resources' = [resources EXCEPT !.queue = "closed"]
  /\ UNCHANGED <<waiting, claimed, ticks, handedTicks, thrownTicks, exitCode>>

\* await connection.quit()
ConnectionQuit ==
  /\ spc = "quit"
  /\ spc' = "exit"
  /\ resources' = [resources EXCEPT !.connection = "closed"]
  /\ UNCHANGED <<waiting, claimed, ticks, handedTicks, thrownTicks, exitCode>>

\* process.exit(0)
ProcessExit ==
  /\ spc = "exit"
  /\ spc' = "exited"
  /\ exitCode' = {0}
  /\ UNCHANGED <<waiting, claimed, ticks, handedTicks, thrownTicks, resources>>

\* a change event while the watcher is open
ChangeEvent ==
  /\ spc = "running"
  /\ reloads < MaxSchedulerReloads
  /\ ValidateConfigs

\* the steps of a change handler that has started; those on the queue
\* need the queue
HandlerStep ==
  /\ ~Exited
  /\ \/ ReloadConfigs
     \/ SyncMonitors
     \/ resources.queue = "open" /\ GetRepeatableJobs
     \/ resources.queue = "open" /\ RemoveRepeatable
     \/ resources.queue = "open" /\ ScheduleMonitor
     \/ ReloadCompleted

(***************************************************************************)
(* ConditionEvaluator and the tail of MonitorRunner.runCheck               *)
(*                                                                         *)
(* A string is the sequence of its lexemes: a placeholder, a path, an      *)
(* operator, a numeral, a quote, a word or a blank.  No lexeme of the      *)
(* alphabet used here contains an operator, a quote or a "$", so that      *)
(* includes, split and replace act on whole lexemes.                       *)
(***************************************************************************)
\* bound: length of monitor.conditions
MaxConditions == 3

VARIABLES
  conditions,          \* monitor.conditions
  checkResult,         \* what the checker returned: success and context
  conditionResults,    \* local conditionResults of runCheck
  monitorCheckResult,  \* what runCheck returned
  rpc                  \* position in runCheck

evaluatorVars == <<conditions, checkResult, conditionResults,
                   monitorCheckResult, rpc>>

\* JavaScript values: t is the type, n the number, s the text
Num(n) == [t |-> "number", n |-> n, s |-> <<>>]
Str(s) == [t |-> "string", n |-> 0, s |-> s]
Bool(b) == [t |-> "boolean", n |-> IF b THEN 1 ELSE 0, s |-> <<>>]
Null == [t |-> "null", n |-> 0, s |-> <<>>]
Undefined == [t |-> "undefined", n |-> 0, s |-> <<>>]
\* an object or an array, named by its JSON text
Obj(text) == [t |-> "object", n |-> 0, s |-> <<text>>]

\* the numbers that have a numeral in the alphabet
Numbers == {0, 1, 2, 3, 4, 120, 200, 404, 500}
Numerals == {ToString(n) : n \in Numbers}

HealthBodyText == "{\"status\":\"healthy\",\"v\":[1,2,3]}"
ArrayText == "[1,2,3]"
HeadersText == "{}"
\* an object graph with a cycle (BODY is of type any); it has no JSON text
CyclicText == "cyclic"

\* the members of an object that a path of the alphabet selects
Members(text) ==
  IF text = HealthBodyText
    THEN [p \in {".status", ".v[0]", ".v"} |->
            CASE p = ".status" -> Str(<<"heal", "thy">>)
              [] p = ".v[0]" -> Num(1)
              [] p = ".v" -> Obj(ArrayText)]
    ELSE [p \in {} |-> Null]

\* String(object): Object.prototype.toString, Array.prototype.join
ObjectString(text) == IF text = ArrayText THEN "1,2,3" ELSE "[object Object]"

\* the lexemes /(\.[\w.[\]]+)/ can match after [BODY]
PathLexemes == {".status", ".v[0]", ".v", ".missing", ".["}

Placeholder ==
  [k \in {"STATUS", "RESPONSE_TIME", "CONNECTED", "HEADERS",
          "CERTIFICATE_EXPIRATION", "ERROR", "TIMESTAMP"} |->
     CASE k = "STATUS" -> "[STATUS]"
       [] k = "RESPONSE_TIME" -> "[RESPONSE_TIME]"
       [] k = "CONNECTED" -> "[CONNECTED]"
       [] k = "HEADERS" -> "[HEADERS]"
       [] k = "CERTIFICATE_EXPIRATION" -> "[CERTIFICATE_EXPIRATION]"
       [] k = "ERROR" -> "[ERROR]"
       [] k = "TIMESTAMP" -> "[TIMESTAMP]"]

\* String.prototype.trim
RECURSIVE TrimStart(_)
TrimStart(text) ==
  IF text # <<>> /\ Head(text) = " " THEN TrimStart(Tail(text)) ELSE text

RECURSIVE TrimEnd(_)
TrimEnd(text) ==
  IF text # <<>> /\ text[Len(text)] = " "
    THEN TrimEnd(SubSeq(text, 1, Len(text) - 1))
    ELSE text

Trim(text) == TrimEnd(TrimStart(text))

\* String.prototype.indexOf, counted from 1; 0 when there is none
IndexOf(text, lexeme) ==
  IF lexeme \in Range(text)
    THEN MinOf({i \in DOMAIN text : text[i] = lexeme})
    ELSE 0

StartsWith(text, prefix) ==
  /\ Len(prefix) <= Len(text)
  /\ SubSeq(text, 1, Len(prefix)) = prefix

\* String.prototype.includes
Includes(text, part) ==
  \E i \in 0..Len(text) :
     /\ i + Len(part) <= Len(text)
     /\ SubSeq(text, i + 1, i + Len(part)) = part

\* JSON.stringify; of undefined it returns undefined, which replace() writes
\* as the text undefined
JSONStringify(value) ==
  CASE value.t = "number" -> [thrown |-> FALSE, text |-> <<ToString(value.n)>>]
    [] value.t = "string" ->
         [thrown |-> FALSE, text |-> <<"\"">> \o value.s \o <<"\"">>]
    [] value.t = "boolean" ->
         [thrown |-> FALSE,
          text |-> IF value.n = 1 THEN <<"true">> ELSE <<"false">>]
    [] value.t = "null" -> [thrown |-> FALSE, text |-> <<"null">>]
    [] value.t = "undefined" -> [thrown |-> FALSE, text |-> <<"undefined">>]
    [] value.t = "object" ->
         IF value.s = <<CyclicText>>
           THEN [thrown |-> TRUE, text |-> <<>>]
           ELSE [thrown |-> FALSE, text |-> value.s]

\* JSON.parse: a numeral, true, false, null, a double-quoted string, an
\* object or array text; everything else is a SyntaxError
JSONParse(text) ==
  LET t == Trim(text) IN
  CASE Len(t) = 1 /\ t[1] \in Numerals ->
         [thrown |-> FALSE,
          value |-> Num(CHOOSE n \in Numbers : ToString(n) = t[1])]
    [] t = <<"true">> -> [thrown |-> FALSE, value |-> Bool(TRUE)]
    [] t = <<"false">> -> [thrown |-> FALSE, value |-> Bool(FALSE)]
    [] t = <<"null">> -> [thrown |-> FALSE, value |-> Null]
    [] Len(t) = 1 /\ t[1] \in {HealthBodyText, ArrayText, HeadersText} ->
         [thrown |-> FALSE, value |-> Obj(t[1])]
    [] /\ Len(t) >= 2
       /\ t[1] = "\""
       /\ t[Len(t)] = "\""
       /\ "\"" \notin Range(SubSeq(t, 2, Len(t) - 1)) ->
         [thrown |-> FALSE, value |-> Str(SubSeq(t, 2, Len(t) - 1))]
    [] OTHER -> [thrown |-> TRUE, value |-> Undefined]

\* JSONPath({ path, json }): the list of the matches; a malformed path makes
\* it throw
JSONPath(path, json) ==
  [thrown |-> path = ".[",
   result |-> IF json.t = "object" /\ path \in DOMAIN Members(json.s[1])
                THEN <<Members(json.s[1])[path]>>
                ELSE <<>>]

\* ToBoolean
Truthy(value) ==
  CASE value.t = "number" -> value.n # 0
    [] value.t = "string" -> value.s # <<>>
    [] value.t = "boolean" -> value.n = 1
    [] value.t = "object" -> TRUE
    [] OTHER -> FALSE

\* ToPrimitive
ToPrimitive(value) ==
  IF value.t = "object" THEN Str(<<ObjectString(value.s[1])>>) ELSE value

\* ToNumber of a primitive: the set of the number, empty for NaN
ToNumber(value) ==
  CASE value.t \in {"number", "boolean"} -> {value.n}
    [] value.t = "null" -> {0}
    [] value.t = "string" ->
         IF value.s = <<>> THEN {0}
         ELSE IF Len(value.s) = 1 /\ value.s[1] \in Numerals
           THEN {CHOOSE n \in Numbers : ToString(n) = value.s[1]}
           ELSE {}
    [] OTHER -> {}

\* String(value)
ToJsString(value) ==
  CASE value.t = "number" -> <<ToString(value.n)>>
    [] value.t = "string" -> value.s
    [] value.t = "boolean" -> IF value.n = 1 THEN <<"true">> ELSE <<"false">>
    [] value.t = "null" -> <<"null">>
    [] value.t = "undefined" -> <<"undefined">>
    [] value.t = "object" -> <<ObjectString(value.s[1])>>

\* the first code unit of the lexemes a string value is made of; no two of
\* them begin alike
CodeUnit(lexeme) ==
  CASE lexeme = " " -> 32
    [] lexeme = "(" -> 40
    [] lexeme = "1,2,3" -> 49
    [] lexeme = "200" -> 50
    [] lexeme = "[object Object]" -> 91
    [] lexeme = "^" -> 94
    [] lexeme = "heal" -> 104
    [] lexeme = "thy" -> 116
    [] OTHER -> 0

\* a < b of two strings
RECURSIVE StringLess(_, _)
StringLess(a, b) ==
  IF b = <<>> THEN FALSE
  ELSE IF a = <<>> THEN TRUE
  ELSE IF Head(a) = Head(b) THEN StringLess(Tail(a), Tail(b))
  ELSE CodeUnit(Head(a)) < CodeUnit(Head(b))

\* a == b
LooseEquals(a, b) ==
  IF a.t = "object" /\ b.t = "object" THEN FALSE
  ELSE IF a.t = "null" \/ b.t = "null" THEN a.t = b.t
  ELSE LET pa == ToPrimitive(a)
           pb == ToPrimitive(b)
       IN IF pa.t = pb.t
            THEN pa = pb
            ELSE ToNumber(pa) # {} /\ ToNumber(pa) = ToNumber(pb)

\* a < b
LessThan(a, b) ==
  LET pa == ToPrimitive(a)
      pb == ToPrimitive(b)
  IN IF pa.t = "string" /\ pb.t = "string"
       THEN StringLess(pa.s, pb.s)
       ELSE \E x \in ToNumber(pa), y \in ToNumber(pb) : x < y

\* a <= b
LessOrEqual(a, b) ==
  LET pa == ToPrimitive(a)
      pb == ToPrimitive(b)
  IN IF pa.t = "string" /\ pb.t = "string"
       THEN ~StringLess(pb.s, pa.s)
       ELSE \E x \in ToNumber(pa), y \in ToNumber(pb) : x <= y

\* new RegExp(pattern).test(subject), for a pattern made of words, with or
\* without a leading ^; an unclosed ( is a SyntaxError
RegExpTest(pattern, subject) ==
  IF "(" \in Range(pattern)
    THEN [thrown |-> TRUE, value |-> FALSE]
    ELSE [thrown |-> FALSE,
          value |-> IF pattern # <<>> /\ Head(pattern) = "^"
                      THEN StartsWith(subject, Tail(pattern))
                      ELSE Includes(subject, pattern)]

operators == <<"==", "!=", ">=", "<=", ">", "<", "contains", "matches">>

\* the switch of evaluateExpression
ApplyOperator(op, leftValue, rightValue) ==
  CASE op = "==" -> [thrown |-> FALSE, value |-> LooseEquals(leftValue, rightValue)]
    [] op = "!=" -> [thrown |-> FALSE, value |-> ~LooseEquals(leftValue, rightValue)]
    [] op = ">" -> [thrown |-> FALSE, value |-> LessThan(rightValue, leftValue)]
    [] op = "<" -> [thrown |-> FALSE, value |-> LessThan(leftValue, rightValue)]
    [] op = ">=" -> [thrown |-> FALSE, value |-> LessOrEqual(rightValue, leftValue)]
    [] op = "<=" -> [thrown |-> FALSE, value |-> LessOrEqual(leftValue, rightValue)]
    [] op = "contains" ->
         [thrown |-> FALSE,
          value |-> Includes(ToJsString(leftValue), ToJsString(rightValue))]
    [] op = "matches" ->
         RegExpTest(ToJsString(rightValue), ToJsString(leftValue))

\* expression.split(op): the first two parts
SplitParts(expression, op) ==
  LET i == IndexOf(expression, op)
      rest == SubSeq(expression, i + 1, Len(expression))
      j == IF op \in Range(rest) THEN IndexOf(rest, op) ELSE Len(rest) + 1
  IN <<SubSeq(expression, 1, i - 1), SubSeq(rest, 1, j - 1)>>

evaluateExpression(text) ==
  LET expression == Trim(text)
      found == {k \in DOMAIN operators : operators[k] \in Range(expression)}
  IN IF found # {}
       THEN LET op == operators[MinOf(found)]
                parts == SplitParts(expression, op)
                left == JSONParse(Trim(parts[1]))
                right == JSONParse(Trim(parts[2]))
                applied == ApplyOperator(op, left.value, right.value)
            IN IF left.thrown \/ right.thrown
                 THEN FALSE
                 ELSE IF applied.thrown THEN FALSE ELSE applied.value
       ELSE LET parsed == JSONParse(expression)
            IN IF parsed.thrown THEN FALSE ELSE parsed.value = Bool(TRUE)

\* the placeholders of the keys of the context other than BODY
RECURSIVE ReplacePlaceholders(_, _)
ReplacePlaceholders(expression, context) ==
  IF expression = <<>> THEN <<>>
  ELSE LET keys == {k \in (DOMAIN context) \ {"BODY"} :
                       Placeholder[k] = Head(expression)}
       IN (IF keys # {}
             THEN JSONStringify(context[CHOOSE k \in keys : TRUE]).text
             ELSE <<Head(expression)>>)
            \o ReplacePlaceholders(Tail(expression), context)

\* the first [BODY] with the path behind it
BodyPathMatch(condition) ==
  LET i == IndexOf(condition, "[BODY]")
  IN [index |-> i,
      path |-> IF i > 0 /\ i < Len(condition) /\ condition[i + 1] \in PathLexemes
                 THEN condition[i + 1]
                 ELSE ""]

\* the text the path of [BODY] is replaced with
PathText(path, body) ==
  LET found == JSONPath(path, body)
      value == IF found.result # <<>> THEN found.result[1] ELSE Undefined
  IN IF found.thrown \/ JSONStringify(value).thrown
       THEN <<"undefined">>
       ELSE JSONStringify(value).text

\* the body of the try block of evaluate
evaluateTry(condition, context) ==
  LET bodyPathMatch == BodyPathMatch(condition)
      i == bodyPathMatch.index
      replaceBody == /\ i > 0
                     /\ "BODY" \in DOMAIN context
                     /\ Truthy(context.BODY)
      before == SubSeq(condition, 1, i - 1)
  IN IF replaceBody /\ bodyPathMatch.path = ""
          /\ JSONStringify(context.BODY).thrown
       THEN [thrown |-> TRUE, value |-> FALSE]
       ELSE LET expression ==
                  IF ~replaceBody THEN condition
                  ELSE IF bodyPathMatch.path # ""
                    THEN before
                           \o PathText(bodyPathMatch.path, context.BODY)
                           \o SubSeq(condition, i + 2, Len(condition))
                    ELSE before
                           \o JSONStringify(context.BODY).text
                           \o SubSeq(condition, i + 1, Len(condition))
            IN [thrown |-> FALSE,
                value |-> evaluateExpression(
                            ReplacePlaceholders(expression, context))]

\* evaluate without its catch clause
evaluateUncaught(condition, context) == evaluateTry(condition, context)

evaluate(condition, context) ==
  IF evaluateTry(condition, context).thrown
    THEN [thrown |-> FALSE, value |-> FALSE]
    ELSE evaluateTry(condition, context)

evaluateAll(conds, context) ==
  [thrown |-> \E i \in DOMAIN conds : evaluate(conds[i], context).thrown,
   value |-> [i \in DOMAIN conds |->
                [condition |-> conds[i],
                 success |-> evaluate(conds[i], context).value]]]

\* HttpChecker.check when the request returned
HttpResponse(status, responseTime, body) ==
  [success |-> status >= 200 /\ status < 300,
   context |-> [STATUS |-> Num(status),
                RESPONSE_TIME |-> Num(responseTime),
                CONNECTED |-> Bool(TRUE),
                BODY |-> body,
                HEADERS |-> Obj(HeadersText),
                CERTIFICATE_EXPIRATION |-> Undefined,
                TIMESTAMP |-> Str(<<"thy">>)]]

\* HttpChecker.check when the request failed
HttpFailure ==
  [success |-> FALSE,
   context |-> [CONNECTED |-> Bool(FALSE),
                ERROR |-> Str(<<"heal">>),
                TIMESTAMP |-> Str(<<"thy">>)]]

CheckResults ==
  { HttpResponse(200, 120, Obj(HealthBodyText)),
    HttpResponse(500, 500, Str(<<"heal", "thy">>)),
    HttpResponse(404, 120, Str(<<"heal", "thy">>)),
    HttpResponse(200, 120, Obj(CyclicText)),
    HttpResponse(200, 0, Str(<<>>)),
    HttpFailure }

LeftOperands ==
  { <<"[STATUS]">>, <<"[RESPONSE_TIME]">>, <<"[CONNECTED]">>, <<"[ERROR]">>,
    <<"[CERTIFICATE_EXPIRATION]">>, <<"[FOO]">>, <<"[BODY]">>,
    <<"[BODY]", ".status">>, <<"[BODY]", ".v[0]">>, <<"[BODY]", ".v">>,
    <<"[BODY]", ".missing">>, <<"[BODY]", ".[">>,
    <<"200">>, <<"\"", "heal", "thy", "\"">> }

RightOperands ==
  { <<"200">>, <<"404">>, <<"500">>, <<"1">>, <<"0">>, <<"true">>, <<"false">>,
    <<"null">>, <<"undefined">>,
    <<"\"", "heal", "thy", "\"">>, <<"'", "heal", "thy", "'">>,
    <<"\"", "heal", "\"">>, <<"\"", "200", "\"">>,
    <<"\"", "^", "thy", "\"">>, <<"\"", "(", "\"">> }

\* lhs OP rhs
Condition(lhs, op, rhs) == lhs \o <<" ", op, " ">> \o rhs

BinaryConditions ==
  {Condition(lhs, op, rhs) :
     lhs \in LeftOperands, op \in Range(operators), rhs \in RightOperands}

\* conditions without an operator, and one with a second operator
OtherConditions ==
  { <<>>, <<"true">>, <<"false">>, <<"[CONNECTED]">>, <<"[FOO]">>,
    <<"[STATUS]", "==", "200", "==", "[FOO]">> }

\* the conditions the longer lists are made of
ListedConditions ==
  { Condition(<<"[STATUS]">>, "==", <<"200">>),
    Condition(<<"[RESPONSE_TIME]">>, "<", <<"500">>),
    Condition(<<"[BODY]", ".status">>, "==", <<"'", "heal", "thy", "'">>),
    Condition(<<"[BODY]", ".v[0]">>, "==", <<"1">>),
    Condition(<<"[CONNECTED]">>, "==", <<"false">>),
    Condition(<<"[BODY]", ".status">>, "contains", <<"\"", "heal", "\"">>) }

ConditionLists ==
  {<<>>}
    \cup {<<c>> : c \in BinaryConditions \cup OtherConditions}
    \cup UNION {[1..n -> ListedConditions] : n \in 2..MaxConditions}

NoMonitorCheckResult == [success |-> FALSE, conditionResults |-> <<>>]

\* runCheck after the checker returned
EvaluatorInit ==
  /\ conditions \in ConditionLists
  /\ checkResult \in CheckResults
  /\ conditionResults = <<>>
  /\ monitorCheckResult = NoMonitorCheckResult
  /\ rpc = "checked"

EvaluatorIdle ==
  /\ conditions = <<>>
  /\ checkResult = HttpFailure
  /\ conditionResults = <<>>
  /\ monitorCheckResult = NoMonitorCheckResult
  /\ rpc = "idle"

\* const conditionResults = ConditionEvaluator.evaluateAll(...)
EvaluateAll ==
  /\ rpc = "checked"
  /\ LET all == evaluateAll(conditions, checkResult.context)
     IN IF all.thrown
          THEN /\ rpc' = "rejected"
               /\ UNCHANGED conditionResults
          ELSE /\ rpc' = "evaluated"
               /\ conditionResults' = all.value
  /\ UNCHANGED <<conditions, checkResult, monitorCheckResult>>

\* runCheck returning the conditions' verdict alone
RunCheckReturnsConditionsOnly ==
  /\ rpc = "evaluated"
  /\ LET allConditionsPass ==
           \A i \in DOMAIN conditionResults : conditionResults[i].success
     IN monitorCheckResult' =
          [success |-> allConditionsPass,
           conditionResults |-> conditionResults]
  /\ rpc' = "returned"
  /\ UNCHANGED <<conditions, checkResult, conditionResults>>

\* allConditionsPass and the return statement of runCheck
RunCheckReturns ==
  /\ rpc = "evaluated"
  /\ LET allConditionsPass ==
           \A i \in DOMAIN conditionResults : conditionResults[i].success
     IN monitorCheckResult' =
          [success |-> checkResult.success /\ allConditionsPass,
           conditionResults |-> conditionResults]
  /\ rpc' = "returned"
  /\ UNCHANGED <<conditions, checkResult, conditionResults>>

(***************************************************************************)
(* CheckRepository and StatusHistoryRepository: retention, daily           *)
(* aggregation and uptime                                                  *)
(***************************************************************************)
\* bounds: rows of the table checks, calls of aggregateDailyStatus
MaxRows == 2
MaxAggregations == 2

VARIABLES
  status_history,         \* table status_history
  status_history_id_seq,  \* the sequence behind status_history.id
  answer,                 \* what the last repository call returned
  aggregated              \* per (monitor, date): runs of aggregateDailyStatus
                          \* since the table checks last changed

historyVars == <<status_history, status_history_id_seq, answer, aggregated>>

\* INTERVAL '1 day' on the clock of the model, which counts minutes
MinutesPerDay == 1440

\* the instant the repository calls are made at: 09:01 on day 3
HistoryNow == ClockStart + 3 * MinutesPerDay

\* checked_at of the stored rows: just before, at and after the instants
\* one and two days back
CheckInstants ==
  { HistoryNow - 2 * MinutesPerDay - 1, HistoryNow - 2 * MinutesPerDay,
    HistoryNow - MinutesPerDay, HistoryNow - 1 }

\* arguments retentionDays and periodDays
DayCounts == {1, 2}

\* DATE(checked_at)
DateOf(t) == t \div MinutesPerDay

Dates == {DateOf(t) : t \in CheckInstants}

CheckRows ==
  [monitorId : Monitors, status : {"up"}, checkedAt : CheckInstants,
   responseTime : {100, 101}]
    \cup [monitorId : Monitors, status : {"down"}, checkedAt : CheckInstants,
          responseTime : {0}]

\* the tables checks of up to MaxRows rows, in the order of insertion
CheckTables ==
  UNION {{t \in [1..n -> CheckRows] :
            \A i \in 1..(n - 1) : t[i].checkedAt <= t[i + 1].checkedAt}
           : n \in 0..MaxRows}

\* the value of a column: the empty set is SQL NULL
SqlNull == {}

\* a JavaScript number in hundredths; not-a-number has no digits
Hundredths(n) == [nan |-> FALSE, hundredths |-> n]
NaN == [nan |-> TRUE, hundredths |-> 0]

NoAnswer ==
  [query |-> "none", days |-> 0, ids |-> {}, rowCount |-> 0,
   uptime |-> [m \in {} |-> NaN]]

\* round(a / b) of two counts, half up
RoundDiv(a, b) == (2 * a + b) \div (2 * b)

\* the rows DELETE ... WHERE checked_at < NOW() - INTERVAL '1 day' * $1 names
OldChecks(retentionDays) ==
  {i \in DOMAIN checks :
      checks[i].checkedAt < now - MinutesPerDay * retentionDays}

\* the rows of the table from row i on, in their order, without the rows
\* whose index is in S
DeleteRows(table, S, i) ==
  LET kept == {j \in DOMAIN table : j >= i /\ j \notin S}
  IN  [k \in 1..Cardinality(kept) |->
         table[CHOOSE j \in kept : Cardinality({l \in kept : l <= j}) = k]]

ResetAggregated == [p \in Monitors \X Dates |-> 0]

\* the rows checked_at <= NOW() - INTERVAL '1 day' * $1 would name
DeleteOldChecksInclusive(retentionDays) ==
  LET old == {i \in DOMAIN checks :
                checks[i].checkedAt <= now - MinutesPerDay * retentionDays}
  IN /\ checks' = DeleteRows(checks, old, 1)
     /\ answer' = [NoAnswer EXCEPT !.query = "deleteOldChecks",
                                   !.days = retentionDays,
                                   !.rowCount = Cardinality(old)]
     /\ aggregated' = IF old = {} THEN aggregated ELSE ResetAggregated
     /\ UNCHANGED <<status_history, status_history_id_seq>>

\* CheckRepository.deleteOldChecks
DeleteOldChecks(retentionDays) ==
  LET old == OldChecks(retentionDays)
  IN /\ checks' = DeleteRows(checks, old, 1)
     /\ answer' = [NoAnswer EXCEPT !.query = "deleteOldChecks",
                                   !.days = retentionDays,
                                   !.rowCount = Cardinality(old)]
     /\ aggregated' = IF old = {} THEN aggregated ELSE ResetAggregated
     /\ UNCHANGED <<status_history, status_history_id_seq>>

\* WHERE monitor_id = $1 AND DATE(checked_at) = $2::date
ChecksOn(m, date) ==
  {i \in ChecksOf(m) : DateOf(checks[i].checkedAt) = date}

UpRows(S) == {i \in S : checks[i].status = "up"}

\* SUM(response_time_ms) over the rows S, value by value
TotalResponseTime(S) ==
  LET times == {checks[i].responseTime : i \in S}
  IN  Sum([t \in times |->
             t * Cardinality({i \in S : checks[i].responseTime = t})], times)

\* variant: the average response time is taken over every row of the day
DailyStatusOfAllRows(m, date) ==
  LET rows == ChecksOn(m, date)
      up == UpRows(rows)
  IN [monitor_id |-> m,
      date |-> date,
      uptime_percentage |->
        IF rows = {} THEN SqlNull
        ELSE {RoundDiv(Cardinality(up) * 10000, Cardinality(rows))},
      avg_response_time_ms |->
        IF rows = {} THEN SqlNull
        ELSE {RoundDiv(TotalResponseTime(rows), Cardinality(rows))},
      total_checks |-> Cardinality(rows),
      successful_checks |-> Cardinality(up)]

\* the SELECT of aggregateDailyStatus: one row, also when no check matches
DailyStatus(m, date) ==
  LET rows == ChecksOn(m, date)
      up == UpRows(rows)
  IN [monitor_id |-> m,
      date |-> date,
      uptime_percentage |->
        IF rows = {} THEN SqlNull
        ELSE {RoundDiv(Cardinality(up) * 10000, Cardinality(rows))},
      avg_response_time_ms |->
        IF up = {} THEN SqlNull
        ELSE {RoundDiv(TotalResponseTime(up), Cardinality(up))},
      total_checks |-> Cardinality(rows),
      successful_checks |-> Cardinality(up)]

\* INSERT ... ON CONFLICT (monitor_id, date) DO UPDATE SET
InsertOrUpdate(table, new, id) ==
  IF \E r \in table : r.monitor_id = new.monitor_id /\ r.date = new.date
    THEN {IF r.monitor_id = new.monitor_id /\ r.date = new.date
            THEN [r EXCEPT !.uptime_percentage = new.uptime_percentage,
                           !.avg_response_time_ms = new.avg_response_time_ms,
                           !.total_checks = new.total_checks,
                           !.successful_checks = new.successful_checks]
            ELSE r : r \in table}
    ELSE table \cup
           {[id |-> id, monitor_id |-> new.monitor_id, date |-> new.date,
             uptime_percentage |-> new.uptime_percentage,
             avg_response_time_ms |-> new.avg_response_time_ms,
             total_checks |-> new.total_checks,
             successful_checks |-> new.successful_checks,
             failed_checks |-> SqlNull]}

\* aggregateDailyStatus adding the counts to the ones stored
AggregateDailyStatusAdding(m, date) ==
  /\ status_history_id_seq < MaxAggregations
  /\ \E r \in monitorsTable : r.id = m
  /\ LET new == DailyStatus(m, date)
         stored == {r \in status_history : r.monitor_id = m /\ r.date = date}
         sum == IF stored = {} THEN new
                ELSE [new EXCEPT
                        !.total_checks =
                           @ + (CHOOSE r \in stored : TRUE).total_checks]
     IN status_history' =
          InsertOrUpdate(status_history, sum, status_history_id_seq + 1)
  /\ status_history_id_seq' = status_history_id_seq + 1
  /\ aggregated' = [aggregated EXCEPT ![<<m, date>>] = @ + 1]
  /\ UNCHANGED <<checks, answer>>

\* StatusHistoryRepository.aggregateDailyStatus; the default of the id
\* column takes a number of the sequence whether or not the row is new
AggregateDailyStatus(m, date) ==
  /\ status_history_id_seq < MaxAggregations
  /\ \E r \in monitorsTable : r.id = m
  /\ status_history' =
       InsertOrUpdate(status_history, DailyStatus(m, date),
                      status_history_id_seq + 1)
  /\ status_history_id_seq' = status_history_id_seq + 1
  /\ aggregated' = [aggregated EXCEPT ![<<m, date>>] = @ + 1]
  /\ UNCHANGED <<checks, answer>>

\* WHERE monitor_id = $1 AND checked_at > NOW() - INTERVAL 'n days'
ChecksWithin(m, periodDays) ==
  {i \in ChecksOf(m) : checks[i].checkedAt > now - MinutesPerDay * periodDays}

\* COUNT(*) is a bigint, which the driver hands over as text
PgCount(S) == Str(<<ToString(Cardinality(S))>>)

\* a === b
StrictEquals(a, b) == a.t = b.t /\ a = b

\* (a / b) * 100 of two values, to the hundredth
DivideTimes100(a, b) ==
  LET x == ToNumber(a)
      y == ToNumber(b)
  IN IF x = {} \/ y = {} \/ y = {0}
       THEN NaN
       ELSE Hundredths(((CHOOSE n \in x : TRUE) * 10000)
                         \div (CHOOSE n \in y : TRUE))

\* parseInt of a numeral
ParseInt(value) == Num(CHOOSE n \in ToNumber(value) : TRUE)

calculateUptime(monitorId, periodDays) ==
  LET rows == ChecksWithin(monitorId, periodDays)
      successful_checks == PgCount(UpRows(rows))
      total_checks == PgCount(rows)
  IN IF StrictEquals(total_checks, Num(0))
       THEN Hundredths(10000)
       ELSE DivideTimes100(successful_checks, total_checks)

\* GROUP BY monitor_id: a row for every monitor with a check in the period
getUptimeForMonitors(monitorIds, periodDays) ==
  [id \in monitorIds |->
     LET rows == ChecksWithin(id, periodDays)
         total == ParseInt(PgCount(rows))
         successful == ParseInt(PgCount(UpRows(rows)))
     IN IF rows = {} THEN Hundredths(10000)
        ELSE IF StrictEquals(total, Num(0)) THEN Hundredths(10000)
        ELSE DivideTimes100(successful, total)]

CalculateUptime(monitorId, periodDays) ==
  /\ answer' = [NoAnswer EXCEPT
                  !.query = "calculateUptime",
                  !.days = periodDays,
                  !.ids = {monitorId},
                  !.uptime = [id \in {monitorId} |->
                                calculateUptime(monitorId, periodDays)]]
  /\ UNCHANGED <<checks, status_history, status_history_id_seq, aggregated>>

GetUptimeForMonitors(monitorIds, periodDays) ==
  /\ answer' = [NoAnswer EXCEPT
                  !.query = "getUptimeForMonitors",
                  !.days = periodDays,
                  !.ids = monitorIds,
                  !.uptime = getUptimeForMonitors(monitorIds, periodDays)]
  /\ UNCHANGED <<checks, status_history, status_history_id_seq, aggregated>>

\* n copies of a row
Copies(n, row) == [i \in 1..n |-> row]

\* a day of monitor 1 with a rows up at 100 ms, b rows up at 101 ms and
\* c rows down after 5000 ms
DayTable(a, b, c) ==
  Copies(a, [monitorId |-> 1, status |-> "up", checkedAt |-> HistoryNow - 1,
             responseTime |-> 100])
    \o Copies(b, [monitorId |-> 1, status |-> "up",
                  checkedAt |-> HistoryNow - 1, responseTime |-> 101])
    \o Copies(c, [monitorId |-> 1, status |-> "down",
                  checkedAt |-> HistoryNow - 1, responseTime |-> 5000])

\* the days that are aggregated: small ones and the one of 95 rows up at
\* 100 ms and 5 rows down
DayTables ==
  {DayTable(a, b, c) : a \in {0, 1, 2, 95}, b \in {0, 1, 2}, c \in {0, 1, 5}}

HistoryIdle ==
  /\ status_history = {}
  /\ status_history_id_seq = 0
  /\ answer = NoAnswer
  /\ aggregated = ResetAggregated

\* an incident of monitor 1 that is still open
OpenIncident ==
  [monitorId |-> 1, status |-> "investigating", severity |-> "major",
   startedAt |-> HistoryNow - 1, resolvedAt |-> NULL]

(***************************************************************************)
(* Incident lifecycle events                                               *)
(***************************************************************************)
VARIABLES
  emitted   \* the lifecycle events the process has emitted, in order

notifierVars == <<emitted>>

\* nothing has been emitted
NotifierIdle == emitted = <<>>

(***************************************************************************)
(* The reload endpoints: POST /api/reload-monitors and                     *)
(* POST /api/admin/reload-monitors                                         *)
(***************************************************************************)
VARIABLES
  request   \* the reload request being served: its position and its answer

apiVars == <<request>>

ReloadEndpoints == {"/api/reload-monitors", "/api/admin/reload-monitors"}

NoRequest == [pc |-> "none", endpoint |-> "", list |-> NoList, status |-> 0]

\* no reload request has been made
ApiIdle == request = NoRequest

\* what no step of a reload endpoint writes
apiFrame == <<now, appFile, file, edits, hpc, syncList, jobsToRemove,
              scheduleList, scheduleIndex, previous, repeatableJobs>>

\* the handler of either endpoint up to its await: ConfigLoader.reloadConfigs()
\* and getMonitorsConfig(); when a load throws, the catch answers 500
PostReloadMonitors(endpoint) ==
  /\ request.pc \in {"none", "responded"}
  /\ reloads < MaxReloads
  /\ reloads' = reloads + 1
  /\ appConfig' = IF appFile.valid
                  THEN [loaded |-> TRUE, title |-> appFile.title]
                  ELSE NoAppConfig
  /\ IF appFile.valid /\ file.valid
     THEN /\ monitorsConfig' = [loaded |-> TRUE, monitors |-> file.monitors]
          /\ request' = [pc |-> "sync", endpoint |-> endpoint,
                         list |-> file.monitors, status |-> 0]
     ELSE /\ monitorsConfig' = NoMonitorsConfig
          /\ request' = [pc |-> "responded", endpoint |-> endpoint,
                         list |-> NoList, status |-> 500]
  /\ UNCHANGED <<apiFrame, monitorsTable, windowSeq, maintenance_windows,
                 recurringMaintenanceCache>>

\* await MonitorRepository.syncMonitors(monitorsConfig.monitors), then
\* res.json(...) or, in the catch, res.status(500)
SyncAndRespond ==
  /\ request.pc = "sync"
  /\ LET st == syncMonitors(request.list)
     IN  /\ monitorsTable' = st.table
         /\ maintenance_windows' = st.windows
         /\ recurringMaintenanceCache' = st.cache
         /\ windowSeq' = st.seq
         /\ request' = [request EXCEPT !.pc = "responded",
               !.status = IF st.failed THEN 500 ELSE 200]
         /\ UNCHANGED <<repeatableJobs, monitorsConfig>>
  /\ UNCHANGED <<now, appFile, file, edits, hpc, syncList, jobsToRemove,
                 scheduleList, scheduleIndex, previous, reloads, appConfig>>

(***************************************************************************)
(* MaintenanceRepository.isInMaintenance as its callers see it: the answer *)
(* object                                                                  *)
(***************************************************************************)
VARIABLES lookup
lookupVars == <<lookup>>

NotInMaintenance == [inMaintenance |-> FALSE, window |-> NULL]
NoLookup == [pc |-> "none", monitorId |-> NULL, at |-> 0, answer |-> NotInMaintenance]
LookupIdle == lookup = NoLookup
RuntimeIdle == hourCycle = "h24"

\* the answers of isInMaintenance(m) at instant t: the first recurring
\* config that is active (an answer without window), else the row of the
\* query (ORDER BY start_time DESC LIMIT 1; window is the id of that row),
\* else not in maintenance
isInMaintenanceAnswers(m, t) ==
  IF \E i \in DOMAIN recurringMaintenanceCache[m] :
        isInRecurringWindow(recurringMaintenanceCache[m][i], t)
  THEN {[inMaintenance |-> TRUE, window |-> NULL]}
  ELSE IF ActiveFixedWindows(m, t) # {}
  THEN {[inMaintenance |-> TRUE, window |-> w.id] :
          w \in {v \in ActiveFixedWindows(m, t) :
                   \A u \in ActiveFixedWindows(m, t) : v.startTime >= u.startTime}}
  ELSE {NotInMaintenance}

\* a caller awaits isInMaintenance(m)
AskMaintenance ==
  /\ \E m \in Monitors : \E a \in isInMaintenanceAnswers(m, now) :
        lookup' = [pc |-> "answered", monitorId |-> m, at |-> now, answer |-> a]
  /\ UNCHANGED <<detectorVars, hourCycle>>

\* the hours and minutes the windows of the lookups start and end at
ClockTimes == {<<0, 0>>, <<0, 30>>, <<1, 0>>, <<9, 0>>, <<23, 0>>, <<23, 59>>}

\* the minutes of the day the lookups are made at
LookupMinutes == {0, 15, 30, 59, 60, 539, 540, 1380, 1439}

(***************************************************************************)
(* StatusHistoryRepository.backfillHistory                                 *)
(***************************************************************************)
VARIABLES backfill
backfillVars == <<backfill>>

NoBackfill ==
  [pc |-> "idle", days |-> 0, rows |-> <<>>, index |-> 0,
   aggregatedCount |-> 0, before |-> {}]
BackfillIdle == backfill = NoBackfill

\* CURRENT_DATE - INTERVAL 'n days': midnight n days before the start of
\* today
CurrentDateMinus(days) == (DateOf(now) - days) * MinutesPerDay

\* the (monitor_id, check_date) pairs the query of backfillHistory selects
MissingHistory(days) ==
  {<<checks[i].monitorId, DateOf(checks[i].checkedAt)>> :
     i \in {j \in DOMAIN checks :
              /\ checks[j].checkedAt > CurrentDateMinus(days)
              /\ ~\E sh \in status_history :
                     /\ sh.monitor_id = checks[j].monitorId
                     /\ sh.date = DateOf(checks[j].checkedAt)}}

\* the pairs of the query without the condition sh.id IS NULL
CheckedDays(days) ==
  {<<checks[i].monitorId, DateOf(checks[i].checkedAt)>> :
     i \in {j \in DOMAIN checks : checks[j].checkedAt > CurrentDateMinus(days)}}

\* ORDER BY check_date: every order of the pairs of S by date
RECURSIVE DateOrders(_)
DateOrders(S) ==
  IF S = {} THEN {<<>>}
  ELSE LET first == {p \in S : \A q \in S : p[2] <= q[2]}
       IN  UNION {{<<p>> \o rest : rest \in DateOrders(S \ {p})} : p \in first}

\* variant: the query returns every (monitor, day) with check rows
BackfillQueryAll(days) ==
  /\ backfill.pc \in {"idle", "returned"}
  /\ \E rows \in DateOrders(CheckedDays(days)) :
        backfill' = [pc |-> "loop", days |-> days, rows |-> rows, index |-> 1,
                     aggregatedCount |-> 0, before |-> status_history]
  /\ UNCHANGED <<checks, historyVars>>

\* const result = await pool.query(query)
BackfillQuery(days) ==
  /\ backfill.pc \in {"idle", "returned"}
  /\ \E rows \in DateOrders(MissingHistory(days)) :
        backfill' = [pc |-> "loop", days |-> days, rows |-> rows, index |-> 1,
                     aggregatedCount |-> 0, before |-> status_history]
  /\ UNCHANGED <<checks, historyVars>>

\* await this.aggregateDailyStatus(row.monitor_id, dateStr); aggregatedCount++
BackfillAggregate ==
  /\ backfill.pc = "loop"
  /\ backfill.index <= Len(backfill.rows)
  /\ AggregateDailyStatus(backfill.rows[backfill.index][1],
                          backfill.rows[backfill.index][2])
  /\ backfill' = [backfill EXCEPT !.index = @ + 1, !.aggregatedCount = @ + 1]

\* return aggregatedCount
BackfillReturns ==
  /\ backfill.pc = "loop"
  /\ backfill.index > Len(backfill.rows)
  /\ backfill' = [backfill EXCEPT !.pc = "returned"]
  /\ UNCHANGED <<checks, historyVars>>

(***************************************************************************)
(* StatusHistoryRepository.aggregateToday and aggregateAllYesterday        *)
(***************************************************************************)
VARIABLES daily
dailyVars == <<daily>>

NoDaily == [pc |-> "idle", call |-> "", date |-> 0, rows |-> <<>>, index |-> 0]
DailyIdle == daily = NoDaily

DailyCalls == {"aggregateToday", "aggregateAllYesterday"}

\* CURRENT_DATE, CURRENT_DATE - 1 and new Date().toISOString().split('T')[0]
\* (database session and process both in UTC)
DateOfCall(fn) ==
  IF fn = "aggregateAllYesterday" THEN DateOf(now) - 1 ELSE DateOf(now)

\* SELECT DISTINCT monitor_id FROM checks WHERE DATE(checked_at) = date
MonitorsCheckedOn(date) ==
  {checks[i].monitorId : i \in {j \in DOMAIN checks :
                                  DateOf(checks[j].checkedAt) = date}}

\* the rows of a query without ORDER BY: every order of S
RECURSIVE Orders(_)
Orders(S) ==
  IF S = {} THEN {<<>>}
  ELSE UNION {{<<x>> \o rest : rest \in Orders(S \ {x})} : x \in S}

\* const result = await pool.query(monitorsQuery), and the date
DailyQuery(fn) ==
  /\ daily.pc \in {"idle", "returned"}
  /\ \E rows \in Orders(MonitorsCheckedOn(DateOfCall(fn))) :
        daily' = [pc |-> "loop", call |-> fn, date |-> DateOfCall(fn),
                  rows |-> rows, index |-> 1]
  /\ UNCHANGED <<checks, historyVars>>

\* await this.aggregateDailyStatus(row.monitor_id, date)
DailyAggregate ==
  /\ daily.pc = "loop"
  /\ daily.index <= Len(daily.rows)
  /\ AggregateDailyStatus(daily.rows[daily.index], daily.date)
  /\ daily' = [daily EXCEPT !.index = @ + 1]

\* the loop is over
DailyReturns ==
  /\ daily.pc = "loop"
  /\ daily.index > Len(daily.rows)
  /\ daily' = [daily EXCEPT !.pc = "returned"]
  /\ UNCHANGED <<checks, historyVars>>

(***************************************************************************)
(* Client: the hook useSmartPolling                                        *)
(***************************************************************************)
\* bound: timers the hook sets in a behaviour
MaxTimers == 4

VARIABLES
  hidden,         \* document.hidden
  mounted,        \* "no", "yes" (effect has run), "gone" (cleanup has run)
  timeoutRef,     \* timeoutRef.current: a timer id or NULL
  isPollingRef,   \* isPollingRef.current
  isVisibleRef,   \* isVisibleRef.current
  timers,         \* ids of the timers that are pending; each calls poll
  timerSeq,       \* ids handed out by setTimeout so far
  onPollCalls     \* calls of onPoll that have not settled

pollingVars == <<hidden, mounted, timeoutRef, isPollingRef, isVisibleRef,
                 timers, timerSeq, onPollCalls>>

PollingIdle ==
  /\ hidden = FALSE
  /\ mounted = "no"
  /\ timeoutRef = NULL
  /\ isPollingRef = FALSE
  /\ isVisibleRef = TRUE
  /\ timers = {}
  /\ timerSeq = 0
  /\ onPollCalls = 0

\* poll() up to its await: nothing when a poll is in flight, else onPoll is
\* called
PollCalled ==
  IF isPollingRef
  THEN UNCHANGED <<isPollingRef, onPollCalls>>
  ELSE /\ isPollingRef' = TRUE
       /\ onPollCalls' = onPollCalls + 1

\* timeoutRef.current = setTimeout(poll, interval)
SetTimeout(pending) ==
  /\ timerSeq < MaxTimers
  /\ timerSeq' = timerSeq + 1
  /\ timeoutRef' = timerSeq + 1
  /\ timers' = pending \cup {timerSeq + 1}

\* the effect: poll on mount or start the timer, and listen
Mount(pollOnMount) ==
  /\ mounted = "no"
  /\ mounted' = "yes"
  /\ IF pollOnMount
     THEN PollCalled /\ UNCHANGED <<timeoutRef, timers, timerSeq>>
     ELSE SetTimeout(timers) /\ UNCHANGED <<isPollingRef, onPollCalls>>
  /\ UNCHANGED <<hidden, isVisibleRef>>

\* onPoll settles (resolved or rejected): the finally block of poll
OnPollSettles ==
  /\ onPollCalls > 0
  /\ onPollCalls' = onPollCalls - 1
  /\ isPollingRef' = FALSE
  /\ SetTimeout(timers)
  /\ UNCHANGED <<hidden, mounted, isVisibleRef>>

\* a pending timer expires and calls poll
TimerExpires(t) ==
  /\ t \in timers
  /\ timers' = timers \ {t}
  /\ PollCalled
  /\ UNCHANGED <<hidden, mounted, timeoutRef, isVisibleRef, timerSeq>>

\* the tab is hidden or shown; handleVisibilityChange runs while the hook
\* listens
VisibilityChange ==
  /\ hidden' = ~hidden
  /\ UNCHANGED mounted
  /\ LET isVisible == hidden
         cleared == IF timeoutRef # NULL THEN timers \ {timeoutRef} ELSE timers
     IN  IF mounted = "yes" /\ isVisible # isVisibleRef
         THEN /\ isVisibleRef' = isVisible
              /\ IF isVisible
                 THEN /\ timers' = cleared
                      /\ PollCalled
                      /\ UNCHANGED <<timeoutRef, timerSeq>>
                 ELSE /\ SetTimeout(cleared)
                      /\ UNCHANGED <<isPollingRef, onPollCalls>>
         ELSE UNCHANGED <<timeoutRef, isPollingRef, isVisibleRef, timers,
                          timerSeq, onPollCalls>>

\* the cleanup of the effect
Unmount ==
  /\ mounted = "yes"
  /\ mounted' = "gone"
  /\ timers' = IF timeoutRef # NULL THEN timers \ {timeoutRef} ELSE timers
  /\ UNCHANGED <<hidden, timeoutRef, isPollingRef, isVisibleRef, timerSeq,
                 onPollCalls>>

(***************************************************************************)
(* Overlapping change handlers: chokidar calls the async 'change' listener *)
(* for every event without waiting for the call before it                  *)
(***************************************************************************)
\* bound: calls of the change listener that are in flight at the same time
MaxHandlers == 2

VARIABLES
  handler   \* per call of the change listener: its position and its locals

overlapVars == <<handler>>

Handlers == 1..MaxHandlers

NoHandler ==
  [pc |-> "idle", syncList |-> NoList, jobsToRemove |-> {},
   scheduleList |-> NoList, scheduleIndex |-> 0]

\* no call of the change listener has been made
OverlapIdle == handler = [h \in Handlers |-> NoHandler]

\* the call is not running: never made, returned, or ended in its catch
HandlerRests(h) == handler[h].pc \in {"idle", "done", "failed"}

\* what no step of a change listener writes
overlapFrame == <<pollingVars, dailyVars, backfillVars, runtimeVars, lookupVars, apiVars, reloadFrame, runnerVars, evaluatorVars,
                  historyVars,
                  notifierVars, schedRest, now, appFile, file, edits, hpc,
                  syncList, jobsToRemove, scheduleList, scheduleIndex,
                  previous>>

\* a change event: the listener is called and ConfigLoader.validateConfigs
\* parses both files; when it throws the call ends in its catch
ValidateConfigsBy(h) ==
  /\ HandlerRests(h)
  /\ reloads < MaxReloads
  /\ reloads' = reloads + 1
  /\ handler' = [handler EXCEPT ![h] =
        [NoHandler EXCEPT !.pc = IF appFile.valid /\ file.valid
                                 THEN "validated" ELSE "failed"]]
  /\ UNCHANGED <<overlapFrame, appConfig, monitorsConfig, monitorsTable,
                 windowSeq, maintenance_windows, recurringMaintenanceCache,
                 repeatableJobs, waiting>>

\* ConfigLoader.reloadConfigs and getMonitorsConfig
ReloadConfigsBy(h) ==
  /\ handler[h].pc = "validated"
  /\ appConfig' = IF appFile.valid
                  THEN [loaded |-> TRUE, title |-> appFile.title]
                  ELSE NoAppConfig
  /\ IF appFile.valid /\ file.valid
     THEN /\ monitorsConfig' = [loaded |-> TRUE, monitors |-> file.monitors]
          /\ handler' = [handler EXCEPT ![h].pc = "sync",
                                        ![h].syncList = file.monitors]
     ELSE /\ monitorsConfig' = NoMonitorsConfig
          /\ handler' = [handler EXCEPT ![h].pc = "failed"]
  /\ UNCHANGED <<overlapFrame, reloads, monitorsTable, windowSeq,
                 maintenance_windows, recurringMaintenanceCache,
                 repeatableJobs, waiting>>

\* await MonitorRepository.syncMonitors(monitorsConfig.monitors)
SyncMonitorsBy(h) ==
  /\ handler[h].pc = "sync"
  /\ LET st == syncMonitors(handler[h].syncList)
     IN  /\ monitorsTable' = st.table
         /\ maintenance_windows' = st.windows
         /\ recurringMaintenanceCache' = st.cache
         /\ windowSeq' = st.seq
         /\ handler' = [handler EXCEPT ![h].pc =
               IF st.failed THEN "failed" ELSE "getRepeatable"]
  /\ UNCHANGED <<overlapFrame, reloads, appConfig, monitorsConfig,
                 repeatableJobs, waiting>>

\* reloadMonitors: await monitorQueue.getRepeatableJobs()
GetRepeatableJobsBy(h) ==
  /\ handler[h].pc = "getRepeatable"
  /\ handler' = [handler EXCEPT ![h].pc = "remove",
                                ![h].jobsToRemove = repeatableJobs]
  /\ UNCHANGED <<overlapFrame, reloads, appConfig, monitorsConfig,
                 monitorsTable, windowSeq, maintenance_windows,
                 recurringMaintenanceCache, repeatableJobs, waiting>>

\* reloadMonitors: one turn of the loop,
\* await monitorQueue.removeRepeatableByKey(job.key); after the last, drain
RemoveRepeatableBy(h) ==
  /\ handler[h].pc = "remove"
  /\ IF handler[h].jobsToRemove = {}
     THEN /\ handler' = [handler EXCEPT ![h].pc = "drain"]
          /\ UNCHANGED repeatableJobs
     ELSE \E job \in handler[h].jobsToRemove :
            /\ repeatableJobs' = {j \in repeatableJobs : JobKey(j) # JobKey(job)}
            /\ handler' = [handler EXCEPT ![h].jobsToRemove = @ \ {job}]
  /\ UNCHANGED <<overlapFrame, reloads, appConfig, monitorsConfig,
                 monitorsTable, windowSeq, maintenance_windows,
                 recurringMaintenanceCache, waiting>>

\* reloadMonitors: await monitorQueue.drain(), then scheduleMonitors reads
\* monitors.yml again
DrainAndLoadBy(h) ==
  /\ handler[h].pc = "drain"
  /\ waiting' = {}
  /\ IF file.valid
     THEN /\ monitorsConfig' = [loaded |-> TRUE, monitors |-> file.monitors]
          /\ handler' = [handler EXCEPT ![h].pc = "schedule",
                                        ![h].scheduleList = file.monitors,
                                        ![h].scheduleIndex = 0]
     ELSE /\ handler' = [handler EXCEPT ![h].pc = "failed"]
          /\ UNCHANGED monitorsConfig
  /\ UNCHANGED <<overlapFrame, reloads, appConfig, monitorsTable, windowSeq,
                 maintenance_windows, recurringMaintenanceCache,
                 repeatableJobs>>

\* scheduleMonitors: one turn of the loop, await monitorQueue.add(...);
\* after the last the listener logs the reload and returns
ScheduleMonitorBy(h) ==
  /\ handler[h].pc = "schedule"
  /\ IF handler[h].scheduleIndex < Len(handler[h].scheduleList)
     THEN /\ repeatableJobs' = AddRepeatable(repeatableJobs,
                RepeatableJob(handler[h].scheduleList[handler[h].scheduleIndex + 1],
                              handler[h].scheduleIndex))
          /\ handler' = [handler EXCEPT ![h].scheduleIndex = @ + 1]
     ELSE /\ handler' = [handler EXCEPT ![h].pc = "done"]
          /\ UNCHANGED repeatableJobs
  /\ UNCHANGED <<overlapFrame, reloads, appConfig, monitorsConfig,
                 monitorsTable, windowSeq, maintenance_windows,
                 recurringMaintenanceCache, waiting>>

(***************************************************************************)
(* Specifications                                                          *)
(***************************************************************************)
vars == <<detectorVars, runnerVars, reloadVars, schedVars, evaluatorVars,
          historyVars, notifierVars, overlapVars, apiVars, runtimeVars, lookupVars, backfillVars, dailyVars, pollingVars>>

\* the detector at rest, without maintenance windows
DetectorIdle ==
  /\ now = ClockStart
  /\ checks = <<>>
  /\ incidents = <<>>
  /\ recurringMaintenanceCache = [m \in ConfigIds |-> <<>>]
  /\ maintenance_windows = {}
  /\ wpc = [w \in Workers |-> "idle"]
  /\ result = [w \in Workers |-> NoResult]
  /\ checkId = [w \in Workers |-> NULL]
  /\ maintenanceStatus = [w \in Workers |-> FALSE]
  /\ activeIncident = [w \in Workers |-> NULL]
  /\ consecutiveFailures = [w \in Workers |-> 0]
  /\ handed = [m \in Monitors |-> 0]

Init == DetectorInit /\ RunnerIdle /\ ReloadIdle /\ SchedIdle /\ EvaluatorIdle /\ HistoryIdle /\ NotifierIdle /\ OverlapIdle /\ ApiIdle /\ RuntimeIdle /\ LookupIdle /\ BackfillIdle /\ DailyIdle /\ PollingIdle

Next ==
  \/ \E w \in Workers : WorkerRunCheck(w) /\ UNCHANGED <<runnerVars, evaluatorVars, historyVars, reloadVars, schedVars, notifierVars, overlapVars, apiVars, runtimeVars, lookupVars, backfillVars, dailyVars, pollingVars>>
  \/ \E w \in Workers : ProcessStep(w) /\ UNCHANGED <<runnerVars, evaluatorVars, historyVars, reloadVars, schedVars, notifierVars, overlapVars, apiVars, runtimeVars, lookupVars, backfillVars, dailyVars, pollingVars>>
  \/ Tick /\ UNCHANGED <<runnerVars, evaluatorVars, historyVars, reloadVars, schedVars, notifierVars, overlapVars, apiVars, runtimeVars, lookupVars, backfillVars, dailyVars, pollingVars>>

\* the worker pool: jobs of one monitor may overlap
Spec == Init /\ [][Next]_vars

\* the database left by two jobs of monitor 1 that failed one after another
\* outside maintenance before the process was started again: two down rows
\* and the incident opened by the second one
RestartStart ==
  /\ now = ClockStart
  /\ checks = <<[monitorId |-> 1, status |-> "down",
                 checkedAt |-> ClockStart - 2, inMaintenance |-> "no"],
                [monitorId |-> 1, status |-> "down",
                 checkedAt |-> ClockStart - 1, inMaintenance |-> "no"]>>
  /\ incidents = <<[monitorId |-> 1, status |-> "investigating",
                    severity |-> determineSeverity({"timeout"}),
                    startedAt |-> ClockStart - 1, resolvedAt |-> NULL]>>
  /\ \E sc \in MaintenanceScenarios :
        /\ recurringMaintenanceCache = sc.cache
        /\ maintenance_windows = sc.table
  /\ ~isInMaintenance(1, ClockStart - 2)
  /\ ~isInMaintenance(1, ClockStart - 1)
  /\ wpc = [w \in Workers |-> "idle"]
  /\ result = [w \in Workers |-> NoResult]
  /\ checkId = [w \in Workers |-> NULL]
  /\ maintenanceStatus = [w \in Workers |-> FALSE]
  /\ activeIncident = [w \in Workers |-> NULL]
  /\ consecutiveFailures = [w \in Workers |-> 0]
  /\ handed = [m \in Monitors |-> 0]
  /\ RunnerIdle /\ ReloadIdle /\ SchedIdle /\ EvaluatorIdle /\ HistoryIdle
  /\ NotifierIdle /\ OverlapIdle /\ ApiIdle /\ RuntimeIdle /\ LookupIdle /\ BackfillIdle /\ DailyIdle /\ PollingIdle

\* the worker pool with overlapping jobs, started on a database with an
\* active incident
RestartSpec == RestartStart /\ [][Next]_vars

SeverityNext ==
  \/ \E w \in Workers : FailingRunCheck(w) /\ UNCHANGED <<runnerVars, evaluatorVars, historyVars, reloadVars, schedVars, notifierVars, overlapVars, apiVars, runtimeVars, lookupVars, backfillVars, dailyVars, pollingVars>>
  \/ \E w \in Workers : ProcessStep(w) /\ UNCHANGED <<runnerVars, evaluatorVars, historyVars, reloadVars, schedVars, notifierVars, overlapVars, apiVars, runtimeVars, lookupVars, backfillVars, dailyVars, pollingVars>>
  \/ Tick /\ UNCHANGED <<runnerVars, evaluatorVars, historyVars, reloadVars, schedVars, notifierVars, overlapVars, apiVars, runtimeVars, lookupVars, backfillVars, dailyVars, pollingVars>>

SeverityStart == Init

\* failing jobs, one after another, with every kind of error
SeveritySpec == SeverityStart /\ [][SeverityNext]_vars

RecoveryNext ==
  \/ \E w \in Workers : WorkerRunCheck(w) /\ UNCHANGED <<runnerVars, evaluatorVars, historyVars, reloadVars, schedVars, notifierVars, overlapVars, apiVars, runtimeVars, lookupVars, backfillVars, dailyVars, pollingVars>>
  \/ \E w \in Workers : RecoveryRunCheck(w) /\ UNCHANGED <<runnerVars, evaluatorVars, historyVars, reloadVars, schedVars, notifierVars, overlapVars, apiVars, runtimeVars, lookupVars, backfillVars, dailyVars, pollingVars>>
  \/ \E w \in Workers : ProcessStep(w) /\ UNCHANGED <<runnerVars, evaluatorVars, historyVars, reloadVars, schedVars, notifierVars, overlapVars, apiVars, runtimeVars, lookupVars, backfillVars, dailyVars, pollingVars>>
  \/ Tick /\ UNCHANGED <<runnerVars, evaluatorVars, historyVars, reloadVars, schedVars, notifierVars, overlapVars, apiVars, runtimeVars, lookupVars, backfillVars, dailyVars, pollingVars>>

RecoveryStart ==
  DetectorIdle /\ RunnerIdle /\ ReloadIdle /\ SchedIdle /\ EvaluatorIdle /\ HistoryIdle /\ NotifierIdle /\ OverlapIdle /\ ApiIdle /\ RuntimeIdle /\ LookupIdle /\ BackfillIdle /\ DailyIdle /\ PollingIdle

\* overlapping jobs with any results, no maintenance window, then only
\* successes; the queue keeps handing jobs out and the workers keep
\* processing them
RecoverySpec == RecoveryStart /\ [][RecoveryNext]_vars /\ WF_vars(RecoveryNext)

\* isInMaintenance asked for monitor 1 with one recurring window and, in
\* half of the cases, a one-time window that covers the instant
LookupStart ==
  /\ now \in {MinutesPerDay + k : k \in LookupMinutes}
  /\ checks = <<>>
  /\ incidents = <<>>
  /\ \E s \in ClockTimes, e \in ClockTimes :
        recurringMaintenanceCache =
          [m \in ConfigIds |->
             IF m = 1 THEN <<[type |-> "daily", start_time |-> s, end_time |-> e]>>
             ELSE <<>>]
  /\ maintenance_windows \in
       {{}, {[id |-> 1, monitorId |-> 1, startTime |-> now - 1, endTime |-> now + 1]}}
  /\ wpc = [w \in Workers |-> "idle"]
  /\ result = [w \in Workers |-> NoResult]
  /\ checkId = [w \in Workers |-> NULL]
  /\ maintenanceStatus = [w \in Workers |-> FALSE]
  /\ activeIncident = [w \in Workers |-> NULL]
  /\ consecutiveFailures = [w \in Workers |-> 0]
  /\ handed = [m \in Monitors |-> 0]
  /\ hourCycle \in HourCycles
  /\ LookupIdle /\ BackfillIdle /\ DailyIdle /\ PollingIdle
  /\ RunnerIdle /\ ReloadIdle /\ SchedIdle /\ EvaluatorIdle /\ HistoryIdle
  /\ NotifierIdle /\ OverlapIdle /\ ApiIdle

LookupNext ==
  \/ AskMaintenance /\ UNCHANGED <<runnerVars, evaluatorVars, historyVars, reloadVars, schedVars, notifierVars, overlapVars, apiVars, backfillVars, dailyVars, pollingVars>>

LookupSpec == LookupStart /\ [][LookupNext]_vars

PollingNext ==
  \/ \E pollOnMount \in BOOLEAN : Mount(pollOnMount) /\ UNCHANGED <<detectorVars, runnerVars, reloadVars, schedVars, evaluatorVars, historyVars, notifierVars, overlapVars, apiVars, runtimeVars, lookupVars, backfillVars, dailyVars>>
  \/ OnPollSettles /\ UNCHANGED <<detectorVars, runnerVars, reloadVars, schedVars, evaluatorVars, historyVars, notifierVars, overlapVars, apiVars, runtimeVars, lookupVars, backfillVars, dailyVars>>
  \/ \E t \in 1..MaxTimers : TimerExpires(t) /\ UNCHANGED <<detectorVars, runnerVars, reloadVars, schedVars, evaluatorVars, historyVars, notifierVars, overlapVars, apiVars, runtimeVars, lookupVars, backfillVars, dailyVars>>
  \/ VisibilityChange /\ UNCHANGED <<detectorVars, runnerVars, reloadVars, schedVars, evaluatorVars, historyVars, notifierVars, overlapVars, apiVars, runtimeVars, lookupVars, backfillVars, dailyVars>>
  \/ Unmount /\ UNCHANGED <<detectorVars, runnerVars, reloadVars, schedVars, evaluatorVars, historyVars, notifierVars, overlapVars, apiVars, runtimeVars, lookupVars, backfillVars, dailyVars>>

\* the component is about to mount in a tab that is shown or hidden
PollingStart ==
  /\ hidden \in BOOLEAN
  /\ mounted = "no"
  /\ timeoutRef = NULL
  /\ isPollingRef = FALSE
  /\ isVisibleRef = ~hidden
  /\ timers = {}
  /\ timerSeq = 0
  /\ onPollCalls = 0
  /\ DetectorIdle /\ RunnerIdle /\ ReloadIdle /\ SchedIdle /\ EvaluatorIdle
  /\ HistoryIdle /\ NotifierIdle /\ OverlapIdle /\ ApiIdle /\ RuntimeIdle
  /\ LookupIdle /\ BackfillIdle /\ DailyIdle

PollingSpec == PollingStart /\ [][PollingNext]_vars

AfterOverlapNext ==
  \/ \E w \in Workers : WorkerRunCheck(w) /\ UNCHANGED <<runnerVars, evaluatorVars, historyVars, reloadVars, schedVars, notifierVars, overlapVars, apiVars, runtimeVars, lookupVars, backfillVars, dailyVars, pollingVars>>
  \/ \E w \in Workers : LoneRunCheck(w) /\ UNCHANGED <<runnerVars, evaluatorVars, historyVars, reloadVars, schedVars, notifierVars, overlapVars, apiVars, runtimeVars, lookupVars, backfillVars, dailyVars, pollingVars>>
  \/ \E w \in Workers : ProcessStep(w) /\ UNCHANGED <<runnerVars, evaluatorVars, historyVars, reloadVars, schedVars, notifierVars, overlapVars, apiVars, runtimeVars, lookupVars, backfillVars, dailyVars, pollingVars>>
  \/ Tick /\ UNCHANGED <<runnerVars, evaluatorVars, historyVars, reloadVars, schedVars, notifierVars, overlapVars, apiVars, runtimeVars, lookupVars, backfillVars, dailyVars, pollingVars>>

\* the worker pool with overlapping jobs, followed by one job that has the
\* detector to itself
AfterOverlapSpec == Init /\ [][AfterOverlapNext]_vars

SerialNext ==
  \/ \E w \in Workers : SerialRunCheck(w) /\ UNCHANGED <<runnerVars, evaluatorVars, historyVars, reloadVars, schedVars, notifierVars, overlapVars, apiVars, runtimeVars, lookupVars, backfillVars, dailyVars, pollingVars>>
  \/ \E w \in Workers : ProcessStep(w) /\ UNCHANGED <<runnerVars, evaluatorVars, historyVars, reloadVars, schedVars, notifierVars, overlapVars, apiVars, runtimeVars, lookupVars, backfillVars, dailyVars, pollingVars>>
  \/ Tick /\ UNCHANGED <<runnerVars, evaluatorVars, historyVars, reloadVars, schedVars, notifierVars, overlapVars, apiVars, runtimeVars, lookupVars, backfillVars, dailyVars, pollingVars>>

\* the jobs of each monitor run one after another
SerialSpec == Init /\ [][SerialNext]_vars

RunnerNext ==
  \/ StartRunChecks /\ UNCHANGED <<detectorVars, reloadVars, schedVars, evaluatorVars, historyVars, notifierVars, overlapVars, apiVars, runtimeVars, lookupVars, backfillVars, dailyVars, pollingVars>>
  \/ \E c \in ChainIds, success \in BOOLEAN :
        ProbeReturns(c, success) /\ UNCHANGED <<detectorVars, reloadVars, schedVars, evaluatorVars, historyVars, notifierVars, overlapVars, apiVars, runtimeVars, lookupVars, backfillVars, dailyVars, pollingVars>>
  \/ \E c \in ChainIds : ProbeThrows(c) /\ UNCHANGED <<detectorVars, reloadVars, schedVars, evaluatorVars, historyVars, notifierVars, overlapVars, apiVars, runtimeVars, lookupVars, backfillVars, dailyVars, pollingVars>>
  \/ \E c \in ChainIds : RunNextResumes(c) /\ UNCHANGED <<detectorVars, reloadVars, schedVars, evaluatorVars, historyVars, notifierVars, overlapVars, apiVars, runtimeVars, lookupVars, backfillVars, dailyVars, pollingVars>>
  \/ RunChecksReturns /\ UNCHANGED <<detectorVars, reloadVars, schedVars, evaluatorVars, historyVars, notifierVars, overlapVars, apiVars, runtimeVars, lookupVars, backfillVars, dailyVars, pollingVars>>

\* one call of runChecks; every probe settles (each has a timeout) and the
\* event loop runs every continuation that is ready
RunnerStart ==
  DetectorIdle /\ RunnerInit /\ ReloadIdle /\ SchedIdle /\ EvaluatorIdle /\ HistoryIdle /\ NotifierIdle /\ OverlapIdle /\ ApiIdle /\ RuntimeIdle /\ LookupIdle /\ BackfillIdle /\ DailyIdle /\ PollingIdle

RunnerSpec == RunnerStart /\ [][RunnerNext]_vars /\ WF_vars(RunnerNext)

ReloadNext ==
  \/ EditFile /\ UNCHANGED <<reloadFrame, runnerVars, evaluatorVars, historyVars, schedVars, notifierVars, overlapVars, apiVars, runtimeVars, lookupVars, backfillVars, dailyVars, pollingVars>>
  \/ EditAppFile /\ UNCHANGED <<reloadFrame, runnerVars, evaluatorVars, historyVars, schedVars, notifierVars, overlapVars, apiVars, runtimeVars, lookupVars, backfillVars, dailyVars, pollingVars>>
  \/ ValidateConfigs /\ UNCHANGED <<reloadFrame, runnerVars, evaluatorVars, historyVars, schedVars, notifierVars, overlapVars, apiVars, runtimeVars, lookupVars, backfillVars, dailyVars, pollingVars>>
  \/ ReloadConfigs /\ UNCHANGED <<reloadFrame, runnerVars, evaluatorVars, historyVars, schedVars, notifierVars, overlapVars, apiVars, runtimeVars, lookupVars, backfillVars, dailyVars, pollingVars>>
  \/ SyncMonitors /\ UNCHANGED <<reloadFrame, runnerVars, evaluatorVars, historyVars, schedVars, notifierVars, overlapVars, apiVars, runtimeVars, lookupVars, backfillVars, dailyVars, pollingVars>>
  \/ GetRepeatableJobs /\ UNCHANGED <<reloadFrame, runnerVars, evaluatorVars, historyVars, schedVars, notifierVars, overlapVars, apiVars, runtimeVars, lookupVars, backfillVars, dailyVars, pollingVars>>
  \/ RemoveRepeatable /\ UNCHANGED <<reloadFrame, runnerVars, evaluatorVars, historyVars, schedVars, notifierVars, overlapVars, apiVars, runtimeVars, lookupVars, backfillVars, dailyVars, pollingVars>>
  \/ DrainAndLoad /\ UNCHANGED <<reloadFrame, runnerVars, evaluatorVars, historyVars, schedRest, notifierVars, overlapVars, apiVars, runtimeVars, lookupVars, backfillVars, dailyVars, pollingVars>>
  \/ ScheduleMonitor /\ UNCHANGED <<reloadFrame, runnerVars, evaluatorVars, historyVars, schedVars, notifierVars, overlapVars, apiVars, runtimeVars, lookupVars, backfillVars, dailyVars, pollingVars>>
  \/ ReloadCompleted /\ UNCHANGED <<reloadFrame, runnerVars, evaluatorVars, historyVars, schedVars, notifierVars, overlapVars, apiVars, runtimeVars, lookupVars, backfillVars, dailyVars, pollingVars>>
  \/ ReloadTick /\ UNCHANGED <<reloadFrame, runnerVars, evaluatorVars, historyVars, schedVars, notifierVars, overlapVars, apiVars, runtimeVars, lookupVars, backfillVars, dailyVars, pollingVars>>

\* the started server and its config watcher; one change handler runs at a
\* time
ReloadStart ==
  /\ ReloadInit /\ RunnerIdle /\ SchedIdle /\ EvaluatorIdle /\ HistoryIdle /\ NotifierIdle /\ OverlapIdle /\ ApiIdle /\ RuntimeIdle /\ LookupIdle /\ BackfillIdle /\ DailyIdle /\ PollingIdle
  /\ checks = <<>>
  /\ incidents = <<>>
  /\ wpc = [w \in Workers |-> "idle"]
  /\ result = [w \in Workers |-> NoResult]
  /\ checkId = [w \in Workers |-> NULL]
  /\ maintenanceStatus = [w \in Workers |-> FALSE]
  /\ activeIncident = [w \in Workers |-> NULL]
  /\ consecutiveFailures = [w \in Workers |-> 0]
  /\ handed = [m \in Monitors |-> 0]

ReloadSpec == ReloadStart /\ [][ReloadNext]_vars

OverlapNext ==
  \/ EditFile /\ UNCHANGED <<reloadFrame, runnerVars, evaluatorVars, historyVars, schedVars, notifierVars, overlapVars, apiVars, runtimeVars, lookupVars, backfillVars, dailyVars, pollingVars>>
  \/ EditAppFile /\ UNCHANGED <<reloadFrame, runnerVars, evaluatorVars, historyVars, schedVars, notifierVars, overlapVars, apiVars, runtimeVars, lookupVars, backfillVars, dailyVars, pollingVars>>
  \/ \E h \in Handlers : ValidateConfigsBy(h)
  \/ \E h \in Handlers : ReloadConfigsBy(h)
  \/ \E h \in Handlers : SyncMonitorsBy(h)
  \/ \E h \in Handlers : GetRepeatableJobsBy(h)
  \/ \E h \in Handlers : RemoveRepeatableBy(h)
  \/ \E h \in Handlers : DrainAndLoadBy(h)
  \/ \E h \in Handlers : ScheduleMonitorBy(h)

OverlapStart == ReloadStart

\* the started server and its config watcher; the calls of the change
\* listener overlap
OverlapSpec == OverlapStart /\ [][OverlapNext]_vars

ApiReloadNext ==
  \/ ReloadNext
  \/ \E endpoint \in ReloadEndpoints :
        PostReloadMonitors(endpoint) /\ UNCHANGED <<reloadFrame, runnerVars, evaluatorVars, historyVars, schedVars, notifierVars, overlapVars, runtimeVars, lookupVars, backfillVars, dailyVars, pollingVars>>
  \/ SyncAndRespond /\ UNCHANGED <<reloadFrame, runnerVars, evaluatorVars, historyVars, schedVars, notifierVars, overlapVars, runtimeVars, lookupVars, backfillVars, dailyVars, pollingVars>>

ApiReloadStart == ReloadStart

\* the started server with its config watcher and its reload endpoints
ApiReloadSpec == ApiReloadStart /\ [][ApiReloadNext]_vars

SchedulerNext ==
  \/ IntervalTick
       /\ UNCHANGED <<detectorVars, runnerVars, evaluatorVars, historyVars, reloadVars, notifierVars, overlapVars, apiVars, runtimeVars, lookupVars, backfillVars, dailyVars, pollingVars>>
  \/ \E w \in Workers :
        ClaimJob(w) /\ UNCHANGED <<detectorVars, runnerVars, evaluatorVars, historyVars, reloadVars, notifierVars, overlapVars, apiVars, runtimeVars, lookupVars, backfillVars, dailyVars, pollingVars>>
  \/ \E w \in Workers : HandResult(w) /\ UNCHANGED <<runnerVars, evaluatorVars, historyVars, reloadVars, notifierVars, overlapVars, apiVars, runtimeVars, lookupVars, backfillVars, dailyVars, pollingVars>>
  \/ \E w \in Workers :
        JobFails(w) /\ UNCHANGED <<detectorVars, runnerVars, evaluatorVars, historyVars, reloadVars, notifierVars, overlapVars, apiVars, runtimeVars, lookupVars, backfillVars, dailyVars, pollingVars>>
  \/ \E w \in Workers : JobStep(w) /\ UNCHANGED <<runnerVars, evaluatorVars, historyVars, reloadVars, notifierVars, overlapVars, apiVars, runtimeVars, lookupVars, backfillVars, dailyVars, pollingVars>>
  \/ ChangeEvent /\ UNCHANGED <<reloadFrame, runnerVars, evaluatorVars, historyVars, schedVars, notifierVars, overlapVars, apiVars, runtimeVars, lookupVars, backfillVars, dailyVars, pollingVars>>
  \/ HandlerStep /\ UNCHANGED <<reloadFrame, runnerVars, evaluatorVars, historyVars, schedVars, notifierVars, overlapVars, apiVars, runtimeVars, lookupVars, backfillVars, dailyVars, pollingVars>>
  \/ (~Exited /\ resources.queue = "open" /\ DrainAndLoad)
       /\ UNCHANGED <<reloadFrame, runnerVars, evaluatorVars, historyVars, schedRest, notifierVars, overlapVars, apiVars, runtimeVars, lookupVars, backfillVars, dailyVars, pollingVars>>
  \/ Signal /\ UNCHANGED <<detectorVars, runnerVars, evaluatorVars, historyVars, reloadVars, notifierVars, overlapVars, apiVars, runtimeVars, lookupVars, backfillVars, dailyVars, pollingVars>>
  \/ CloseWorker /\ UNCHANGED <<detectorVars, runnerVars, evaluatorVars, historyVars, reloadVars, notifierVars, overlapVars, apiVars, runtimeVars, lookupVars, backfillVars, dailyVars, pollingVars>>
  \/ WorkerClosed /\ UNCHANGED <<detectorVars, runnerVars, evaluatorVars, historyVars, reloadVars, notifierVars, overlapVars, apiVars, runtimeVars, lookupVars, backfillVars, dailyVars, pollingVars>>
  \/ QueueClosed /\ UNCHANGED <<detectorVars, runnerVars, evaluatorVars, historyVars, reloadVars, notifierVars, overlapVars, apiVars, runtimeVars, lookupVars, backfillVars, dailyVars, pollingVars>>
  \/ ConnectionQuit /\ UNCHANGED <<detectorVars, runnerVars, evaluatorVars, historyVars, reloadVars, notifierVars, overlapVars, apiVars, runtimeVars, lookupVars, backfillVars, dailyVars, pollingVars>>
  \/ ProcessExit /\ UNCHANGED <<detectorVars, runnerVars, evaluatorVars, historyVars, reloadVars, notifierVars, overlapVars, apiVars, runtimeVars, lookupVars, backfillVars, dailyVars, pollingVars>>

\* what the event loop does when it can: everything but the arrival of
\* ticks, change events and signals
SchedulerProgress ==
  \/ \E w \in Workers :
        ClaimJob(w) /\ UNCHANGED <<detectorVars, runnerVars, evaluatorVars, historyVars, reloadVars, notifierVars, overlapVars, apiVars, runtimeVars, lookupVars, backfillVars, dailyVars, pollingVars>>
  \/ \E w \in Workers : HandResult(w) /\ UNCHANGED <<runnerVars, evaluatorVars, historyVars, reloadVars, notifierVars, overlapVars, apiVars, runtimeVars, lookupVars, backfillVars, dailyVars, pollingVars>>
  \/ \E w \in Workers :
        JobFails(w) /\ UNCHANGED <<detectorVars, runnerVars, evaluatorVars, historyVars, reloadVars, notifierVars, overlapVars, apiVars, runtimeVars, lookupVars, backfillVars, dailyVars, pollingVars>>
  \/ \E w \in Workers : JobStep(w) /\ UNCHANGED <<runnerVars, evaluatorVars, historyVars, reloadVars, notifierVars, overlapVars, apiVars, runtimeVars, lookupVars, backfillVars, dailyVars, pollingVars>>
  \/ HandlerStep /\ UNCHANGED <<reloadFrame, runnerVars, evaluatorVars, historyVars, schedVars, notifierVars, overlapVars, apiVars, runtimeVars, lookupVars, backfillVars, dailyVars, pollingVars>>
  \/ (~Exited /\ resources.queue = "open" /\ DrainAndLoad)
       /\ UNCHANGED <<reloadFrame, runnerVars, evaluatorVars, historyVars, schedRest, notifierVars, overlapVars, apiVars, runtimeVars, lookupVars, backfillVars, dailyVars, pollingVars>>
  \/ CloseWorker /\ UNCHANGED <<detectorVars, runnerVars, evaluatorVars, historyVars, reloadVars, notifierVars, overlapVars, apiVars, runtimeVars, lookupVars, backfillVars, dailyVars, pollingVars>>
  \/ WorkerClosed /\ UNCHANGED <<detectorVars, runnerVars, evaluatorVars, historyVars, reloadVars, notifierVars, overlapVars, apiVars, runtimeVars, lookupVars, backfillVars, dailyVars, pollingVars>>
  \/ QueueClosed /\ UNCHANGED <<detectorVars, runnerVars, evaluatorVars, historyVars, reloadVars, notifierVars, overlapVars, apiVars, runtimeVars, lookupVars, backfillVars, dailyVars, pollingVars>>
  \/ ConnectionQuit /\ UNCHANGED <<detectorVars, runnerVars, evaluatorVars, historyVars, reloadVars, notifierVars, overlapVars, apiVars, runtimeVars, lookupVars, backfillVars, dailyVars, pollingVars>>
  \/ ProcessExit /\ UNCHANGED <<detectorVars, runnerVars, evaluatorVars, historyVars, reloadVars, notifierVars, overlapVars, apiVars, runtimeVars, lookupVars, backfillVars, dailyVars, pollingVars>>

\* the started server with its worker, its watcher and its signal handlers
SchedulerStart == ReloadStart

\* every probe settles (each has a timeout), every database call returns,
\* and the event loop runs every continuation that is ready
SchedulerSpec ==
  SchedulerStart /\ [][SchedulerNext]_vars /\ WF_vars(SchedulerProgress)

ShutdownNext ==
  \/ IntervalTick /\ UNCHANGED <<detectorVars, runnerVars, evaluatorVars, historyVars, reloadVars, notifierVars, overlapVars, apiVars, runtimeVars, lookupVars, backfillVars, dailyVars, pollingVars>>
  \/ \E w \in Workers :
        ClaimJob(w) /\ UNCHANGED <<detectorVars, runnerVars, evaluatorVars, historyVars, reloadVars, notifierVars, overlapVars, apiVars, runtimeVars, lookupVars, backfillVars, dailyVars, pollingVars>>
  \/ \E w \in Workers : HandResult(w) /\ UNCHANGED <<runnerVars, evaluatorVars, historyVars, reloadVars, notifierVars, overlapVars, apiVars, runtimeVars, lookupVars, backfillVars, dailyVars, pollingVars>>
  \/ \E w \in Workers :
        JobFails(w) /\ UNCHANGED <<detectorVars, runnerVars, evaluatorVars, historyVars, reloadVars, notifierVars, overlapVars, apiVars, runtimeVars, lookupVars, backfillVars, dailyVars, pollingVars>>
  \/ \E w \in Workers : JobStep(w) /\ UNCHANGED <<runnerVars, evaluatorVars, historyVars, reloadVars, notifierVars, overlapVars, apiVars, runtimeVars, lookupVars, backfillVars, dailyVars, pollingVars>>
  \/ Signal /\ UNCHANGED <<detectorVars, runnerVars, evaluatorVars, historyVars, reloadVars, notifierVars, overlapVars, apiVars, runtimeVars, lookupVars, backfillVars, dailyVars, pollingVars>>
  \/ CloseWorker /\ UNCHANGED <<detectorVars, runnerVars, evaluatorVars, historyVars, reloadVars, notifierVars, overlapVars, apiVars, runtimeVars, lookupVars, backfillVars, dailyVars, pollingVars>>
  \/ WorkerClosed /\ UNCHANGED <<detectorVars, runnerVars, evaluatorVars, historyVars, reloadVars, notifierVars, overlapVars, apiVars, runtimeVars, lookupVars, backfillVars, dailyVars, pollingVars>>
  \/ QueueClosed /\ UNCHANGED <<detectorVars, runnerVars, evaluatorVars, historyVars, reloadVars, notifierVars, overlapVars, apiVars, runtimeVars, lookupVars, backfillVars, dailyVars, pollingVars>>
  \/ ConnectionQuit /\ UNCHANGED <<detectorVars, runnerVars, evaluatorVars, historyVars, reloadVars, notifierVars, overlapVars, apiVars, runtimeVars, lookupVars, backfillVars, dailyVars, pollingVars>>
  \/ ProcessExit /\ UNCHANGED <<detectorVars, runnerVars, evaluatorVars, historyVars, reloadVars, notifierVars, overlapVars, apiVars, runtimeVars, lookupVars, backfillVars, dailyVars, pollingVars>>

ShutdownProgress ==
  \/ \E w \in Workers :
        ClaimJob(w) /\ UNCHANGED <<detectorVars, runnerVars, evaluatorVars, historyVars, reloadVars, notifierVars, overlapVars, apiVars, runtimeVars, lookupVars, backfillVars, dailyVars, pollingVars>>
  \/ \E w \in Workers : HandResult(w) /\ UNCHANGED <<runnerVars, evaluatorVars, historyVars, reloadVars, notifierVars, overlapVars, apiVars, runtimeVars, lookupVars, backfillVars, dailyVars, pollingVars>>
  \/ \E w \in Workers :
        JobFails(w) /\ UNCHANGED <<detectorVars, runnerVars, evaluatorVars, historyVars, reloadVars, notifierVars, overlapVars, apiVars, runtimeVars, lookupVars, backfillVars, dailyVars, pollingVars>>
  \/ \E w \in Workers : JobStep(w) /\ UNCHANGED <<runnerVars, evaluatorVars, historyVars, reloadVars, notifierVars, overlapVars, apiVars, runtimeVars, lookupVars, backfillVars, dailyVars, pollingVars>>
  \/ CloseWorker /\ UNCHANGED <<detectorVars, runnerVars, evaluatorVars, historyVars, reloadVars, notifierVars, overlapVars, apiVars, runtimeVars, lookupVars, backfillVars, dailyVars, pollingVars>>
  \/ WorkerClosed /\ UNCHANGED <<detectorVars, runnerVars, evaluatorVars, historyVars, reloadVars, notifierVars, overlapVars, apiVars, runtimeVars, lookupVars, backfillVars, dailyVars, pollingVars>>
  \/ QueueClosed /\ UNCHANGED <<detectorVars, runnerVars, evaluatorVars, historyVars, reloadVars, notifierVars, overlapVars, apiVars, runtimeVars, lookupVars, backfillVars, dailyVars, pollingVars>>
  \/ ConnectionQuit /\ UNCHANGED <<detectorVars, runnerVars, evaluatorVars, historyVars, reloadVars, notifierVars, overlapVars, apiVars, runtimeVars, lookupVars, backfillVars, dailyVars, pollingVars>>
  \/ ProcessExit /\ UNCHANGED <<detectorVars, runnerVars, evaluatorVars, historyVars, reloadVars, notifierVars, overlapVars, apiVars, runtimeVars, lookupVars, backfillVars, dailyVars, pollingVars>>

ShutdownStart == ReloadStart

\* the started server, its worker and its signal handlers, while
\* monitors.yml and config.yml stay as they are
ShutdownSpec ==
  ShutdownStart /\ [][ShutdownNext]_vars /\ WF_vars(ShutdownProgress)

EvaluatorNext ==
  \/ EvaluateAll /\ UNCHANGED <<detectorVars, runnerVars, reloadVars, schedVars, historyVars, notifierVars, overlapVars, apiVars, runtimeVars, lookupVars, backfillVars, dailyVars, pollingVars>>
  \/ RunCheckReturns
       /\ UNCHANGED <<detectorVars, runnerVars, reloadVars, schedVars, historyVars, notifierVars, overlapVars, apiVars, runtimeVars, lookupVars, backfillVars, dailyVars, pollingVars>>

EvaluatorStart ==
  /\ DetectorIdle /\ RunnerIdle /\ ReloadIdle /\ SchedIdle /\ EvaluatorInit
  /\ HistoryIdle /\ NotifierIdle /\ OverlapIdle /\ ApiIdle /\ RuntimeIdle /\ LookupIdle /\ BackfillIdle /\ DailyIdle /\ PollingIdle

\* one call of runCheck from the return of the checker on
EvaluatorSpec == EvaluatorStart /\ [][EvaluatorNext]_vars

historyFrame == <<now, incidents, maintenance_windows,
                  recurringMaintenanceCache, wpc, result, checkId,
                  maintenanceStatus, activeIncident, consecutiveFailures,
                  handed>>

HistoryNext ==
  \/ \E retentionDays \in DayCounts :
        DeleteOldChecks(retentionDays)
          /\ UNCHANGED <<historyFrame, runnerVars, reloadVars, schedVars,
                         evaluatorVars, notifierVars, overlapVars, apiVars, runtimeVars, lookupVars, backfillVars, dailyVars, pollingVars>>
  \/ \E m \in Monitors, date \in Dates :
        AggregateDailyStatus(m, date)
          /\ UNCHANGED <<historyFrame, runnerVars, reloadVars, schedVars,
                         evaluatorVars, notifierVars, overlapVars, apiVars, runtimeVars, lookupVars, backfillVars, dailyVars, pollingVars>>

\* the database on day 3 apart from its check rows
HistoryDatabase ==
  /\ now = HistoryNow
  /\ incidents = <<OpenIncident>>
  /\ maintenance_windows = {FixedWindow(1)}
  /\ recurringMaintenanceCache = [m \in ConfigIds |-> <<>>]
  /\ wpc = [w \in Workers |-> "idle"]
  /\ result = [w \in Workers |-> NoResult]
  /\ checkId = [w \in Workers |-> NULL]
  /\ maintenanceStatus = [w \in Workers |-> FALSE]
  /\ activeIncident = [w \in Workers |-> NULL]
  /\ consecutiveFailures = [w \in Workers |-> 0]
  /\ handed = [m \in Monitors |-> 0]
  /\ appFile = [valid |-> TRUE, title |-> "a"]
  /\ appConfig = NoAppConfig
  /\ file = [valid |-> TRUE, monitors |-> NoList]
  /\ monitorsConfig = NoMonitorsConfig
  /\ monitorsTable = UpsertMonitor(UpsertMonitor({}, MonitorApi), MonitorWeb)
  /\ windowSeq = 1
  /\ repeatableJobs = {}
  /\ hpc = "idle"
  /\ syncList = NoList
  /\ jobsToRemove = {}
  /\ scheduleList = NoList
  /\ scheduleIndex = 0
  /\ reloads = 0
  /\ edits = 0
  /\ previous = NoPrevious
  /\ RunnerIdle /\ SchedIdle /\ EvaluatorIdle /\ HistoryIdle /\ NotifierIdle /\ OverlapIdle /\ ApiIdle /\ RuntimeIdle /\ LookupIdle /\ BackfillIdle /\ DailyIdle /\ PollingIdle

\* the database on day 3: monitors 1 and 2 with their check rows, an open
\* incident and a maintenance window
HistoryStart ==
  /\ checks \in CheckTables
  /\ HistoryDatabase

\* the same database with the check rows of one day of monitor 1
AggregationStart ==
  /\ checks \in DayTables
  /\ HistoryDatabase

AggregationNext == HistoryNext

\* the daily aggregation and the retention job on the rows of one day
AggregationSpec == AggregationStart /\ [][AggregationNext]_vars

\* the retention job and the daily aggregation on a stored table
HistorySpec == HistoryStart /\ [][HistoryNext]_vars

BackfillNext ==
  \/ \E days \in DayCounts : BackfillQuery(days) /\ UNCHANGED <<historyFrame, runnerVars, reloadVars, schedVars, evaluatorVars, notifierVars, overlapVars, apiVars, runtimeVars, lookupVars, dailyVars, pollingVars>>
  \/ BackfillAggregate /\ UNCHANGED <<historyFrame, runnerVars, reloadVars, schedVars, evaluatorVars, notifierVars, overlapVars, apiVars, runtimeVars, lookupVars, dailyVars, pollingVars>>
  \/ BackfillReturns /\ UNCHANGED <<historyFrame, runnerVars, reloadVars, schedVars, evaluatorVars, notifierVars, overlapVars, apiVars, runtimeVars, lookupVars, dailyVars, pollingVars>>
  \/ \E retentionDays \in DayCounts :
        DeleteOldChecks(retentionDays) /\ UNCHANGED <<backfillVars, pollingVars>> /\ UNCHANGED <<historyFrame, runnerVars, reloadVars, schedVars, evaluatorVars, notifierVars, overlapVars, apiVars, runtimeVars, lookupVars, dailyVars, pollingVars>>
  \/ \E m \in Monitors, date \in Dates :
        AggregateDailyStatus(m, date) /\ UNCHANGED <<backfillVars, pollingVars>> /\ UNCHANGED <<historyFrame, runnerVars, reloadVars, schedVars, evaluatorVars, notifierVars, overlapVars, apiVars, runtimeVars, lookupVars, dailyVars, pollingVars>>

BackfillStart == HistoryStart

\* the backfill at startup next to the retention job and the aggregations
\* of the other callers
BackfillSpec == BackfillStart /\ [][BackfillNext]_vars

SummaryNext ==
  \/ \E days \in DayCounts : BackfillQuery(days) /\ UNCHANGED <<dailyVars, pollingVars>> /\ UNCHANGED <<historyFrame, runnerVars, reloadVars, schedVars, evaluatorVars, notifierVars, overlapVars, apiVars, runtimeVars, lookupVars, pollingVars>>
  \/ BackfillAggregate /\ UNCHANGED <<dailyVars, pollingVars>> /\ UNCHANGED <<historyFrame, runnerVars, reloadVars, schedVars, evaluatorVars, notifierVars, overlapVars, apiVars, runtimeVars, lookupVars, pollingVars>>
  \/ BackfillReturns /\ UNCHANGED <<dailyVars, pollingVars>> /\ UNCHANGED <<historyFrame, runnerVars, reloadVars, schedVars, evaluatorVars, notifierVars, overlapVars, apiVars, runtimeVars, lookupVars, pollingVars>>
  \/ \E fn \in DailyCalls : DailyQuery(fn) /\ UNCHANGED <<backfillVars, pollingVars>> /\ UNCHANGED <<historyFrame, runnerVars, reloadVars, schedVars, evaluatorVars, notifierVars, overlapVars, apiVars, runtimeVars, lookupVars, pollingVars>>
  \/ DailyAggregate /\ UNCHANGED <<backfillVars, pollingVars>> /\ UNCHANGED <<historyFrame, runnerVars, reloadVars, schedVars, evaluatorVars, notifierVars, overlapVars, apiVars, runtimeVars, lookupVars, pollingVars>>
  \/ DailyReturns /\ UNCHANGED <<backfillVars, pollingVars>> /\ UNCHANGED <<historyFrame, runnerVars, reloadVars, schedVars, evaluatorVars, notifierVars, overlapVars, apiVars, runtimeVars, lookupVars, pollingVars>>
  \/ \E retentionDays \in DayCounts :
        DeleteOldChecks(retentionDays) /\ UNCHANGED <<backfillVars, dailyVars, pollingVars>> /\ UNCHANGED <<historyFrame, runnerVars, reloadVars, schedVars, evaluatorVars, notifierVars, overlapVars, apiVars, runtimeVars, lookupVars, pollingVars>>

SummaryStart == HistoryStart

\* the callers of aggregateDailyStatus and the retention job, each await a
\* step
SummarySpec == SummaryStart /\ [][SummaryNext]_vars

UptimeNext ==
  \/ \E monitorId \in Monitors, periodDays \in DayCounts :
        CalculateUptime(monitorId, periodDays)
          /\ UNCHANGED <<historyFrame, runnerVars, reloadVars, schedVars,
                         evaluatorVars, notifierVars, overlapVars, apiVars, runtimeVars, lookupVars, backfillVars, dailyVars, pollingVars>>
  \/ \E monitorIds \in SUBSET Monitors, periodDays \in DayCounts :
        GetUptimeForMonitors(monitorIds, periodDays)
          /\ UNCHANGED <<historyFrame, runnerVars, reloadVars, schedVars,
                         evaluatorVars, notifierVars, overlapVars, apiVars, runtimeVars, lookupVars, backfillVars, dailyVars, pollingVars>>

UptimeStart == HistoryStart

\* the uptime queries on a stored table
UptimeSpec == UptimeStart /\ [][UptimeNext]_vars

(***************************************************************************)
(* Properties of incident detection                                        *)
(***************************************************************************)
IncidentsOf(m) == {i \in DOMAIN incidents : incidents[i].monitorId = m}

\* the check rows of monitor m, oldest first
MonitorRows(m) == SelectSeq(checks, LAMBDA r : r.monitorId = m)

\* length of the run of down rows that ends at row k
RECURSIVE DownRun(_, _)
DownRun(rows, k) ==
  IF k = 0 THEN 0
  ELSE IF rows[k].status = "up" THEN 0
  ELSE 1 + DownRun(rows, k - 1)

\* the rows at which the consecutive-down count reaches the threshold
ThresholdRows(m) ==
  {k \in 1..Len(MonitorRows(m)) : DownRun(MonitorRows(m), k) = FAILURE_THRESHOLD}

\* no result of m is in the middle of processCheckResult
Settled(m) == \A w \in InFlight(m) : wpc[w] = "done"

\* every result of m processed so far was processed outside maintenance
NeverInMaintenance(m) ==
  \A i \in ChecksOf(m) : checks[i].inMaintenance = "no"

\* C1: under any interleaving of overlapping jobs, every monitor has at
\* most one incident with resolved_at = null.
C1_AtMostOneActiveIncident ==
  \A m \in Monitors : Cardinality(ActiveIncidents(m)) <= 1

\* C2: results of one monitor processed one after another, never in
\* maintenance: whenever processing has settled, the monitor has exactly one
\* incident per check row at which the run of consecutive down rows reached
\* FAILURE_THRESHOLD - so an incident is opened exactly by the failing
\* result that brings the run to the threshold, never by a shorter run and
\* never again by further failures of the same run.
C2_ThresholdHysteresis ==
  \A m \in Monitors :
     (Settled(m) /\ NeverInMaintenance(m))
        => Cardinality(IncidentsOf(m)) = Cardinality(ThresholdRows(m))

\* a run of three failures has opened one incident
C2_Witness ==
  \E m \in Monitors :
     /\ Settled(m) /\ NeverInMaintenance(m)
     /\ Len(MonitorRows(m)) = 3
     /\ \A k \in 1..3 : MonitorRows(m)[k].status = "down"
     /\ Cardinality(IncidentsOf(m)) = 1

\* C3: when a success result has been processed outside maintenance while
\* the monitor had an active incident, that incident is resolved (status
\* resolved, resolved_at set) and the monitor has no active incident.
C3_Recovery ==
  \A w \in Workers :
     ( /\ wpc[w] = "done"
       /\ result[w].monitorId # NULL
       /\ result[w].success
       /\ ~maintenanceStatus[w]
       /\ activeIncident[w] # NULL )
     => /\ incidents[activeIncident[w]].status = "resolved"
        /\ incidents[activeIncident[w]].resolvedAt # NULL
        /\ ActiveIncidents(result[w].monitorId) = {}

C3_Witness ==
  \E w \in Workers :
     /\ wpc[w] = "done"
     /\ result[w].success
     /\ ~maintenanceStatus[w]
     /\ activeIncident[w] # NULL
     /\ incidents[activeIncident[w]].status = "resolved"

\* C4 as stated: a result whose timestamp lies in an active maintenance
\* window of its monitor leaves the incident table unchanged while it is
\* processed.
C4_TimestampInWindow ==
  [][\A w \in Workers :
        ( /\ wpc'[w] # wpc[w]
          /\ wpc[w] # "idle"
          /\ isInMaintenance(result[w].monitorId, result[w].timestamp) )
        => incidents' = incidents]_vars

\* C4 amended: a result for which isInMaintenance, asked by
\* processCheckResult after the check row is saved, answers that a window
\* is active leaves the incident table unchanged while it is processed.
C4_MaintenanceSuppression ==
  [][\A w \in Workers :
        ( /\ wpc'[w] # wpc[w]
          /\ wpc[w] # "idle"
          /\ (wpc[w] \in {"save", "maintenance"} \/ maintenanceStatus[w]) )
        => incidents' = incidents]_vars

\* two failures in a row were processed inside a window, no incident
C4_Witness ==
  \E w \in Workers :
     /\ wpc[w] = "done"
     /\ maintenanceStatus[w]
     /\ ~result[w].success
     /\ Len(MonitorRows(result[w].monitorId)) >= FAILURE_THRESHOLD
     /\ \A k \in 1..Len(MonitorRows(result[w].monitorId)) :
           MonitorRows(result[w].monitorId)[k].status = "down"
     /\ IncidentsOf(result[w].monitorId) = {}

\* C5: every result handed to processCheckResult has appended exactly one
\* check row (up iff success) by the time the maintenance oracle or any
\* incident logic runs for it, and a monitor all of whose results were
\* processed inside a maintenance window has its check rows and no incident.
C5_CheckRowPerResult ==
  /\ \A m \in Monitors :
        Cardinality(ChecksOf(m)) =
           handed[m] - Cardinality({w \in InFlight(m) : wpc[w] = "save"})
  /\ \A w \in Workers :
        (wpc[w] \notin {"idle", "save"} /\ result[w].monitorId # NULL)
        => /\ checkId[w] \in ChecksOf(result[w].monitorId)
           /\ checks[checkId[w]].status =
                 (IF result[w].success THEN "up" ELSE "down")
           /\ \A v \in Workers \ {w} :
                 wpc[v] \notin {"idle", "save"} => checkId[v] # checkId[w]
  /\ \A m \in Monitors :
        (\A i \in ChecksOf(m) : checks[i].inMaintenance # "no")
        => IncidentsOf(m) = {}

\* two failing results processed inside a window: two down rows, no incident
C5_Witness ==
  \E m \in Monitors :
     /\ Settled(m)
     /\ handed[m] = 2
     /\ Cardinality(ChecksOf(m)) = 2
     /\ \A i \in ChecksOf(m) :
           checks[i].status = "down" /\ checks[i].inMaintenance = "yes"
     /\ IncidentsOf(m) = {}

\* the down rows recorded outside maintenance in the run of down rows that
\* ends at row k
RECURSIVE OutsideDownRun(_, _)
OutsideDownRun(rows, k) ==
  IF k = 0 THEN 0
  ELSE IF rows[k].status = "up" THEN 0
  ELSE (IF rows[k].inMaintenance = "no" THEN 1 ELSE 0)
         + OutsideDownRun(rows, k - 1)

\* C6: a handler that has opened an incident finds at least
\* FAILURE_THRESHOLD down rows recorded outside maintenance in the current
\* run of down rows of its monitor.
C6_ThresholdOutsideMaintenance ==
  \A w \in Workers :
     (wpc[w] = "done" /\ consecutiveFailures[w] >= FAILURE_THRESHOLD)
     => OutsideDownRun(MonitorRows(result[w].monitorId),
                       Len(MonitorRows(result[w].monitorId)))
           >= FAILURE_THRESHOLD

(***************************************************************************)
(* Properties of the runner                                                *)
(***************************************************************************)
Finished == call \in {"returned", "rejected"}

\* C7: a probe that throws becomes a failed result: no runCheck rejects,
\* and runChecks over N monitors of which at most N-1 throw does not reject
\* and returns exactly N results.
C7_ThrowingProbeBecomesResult ==
  Cardinality(throwing) < Len(monitorList)
  => /\ \A c \in ChainIds : chains[c].pc # "rejected"
     /\ call # "rejected"
     /\ call = "returned" => Len(results) = Len(monitorList)

C8_Safe ==
  /\ Cardinality(InFlightProbes) <= concurrency
  /\ \A m \in Range(monitorList) : probed[m] <= 1
  /\ call = "returned"
     => /\ Len(results) = Len(monitorList)
        /\ \A m \in Range(monitorList) :
              /\ probed[m] = 1
              /\ Cardinality({i \in DOMAIN results : results[i].monitor = m}) = 1

\* C8: with k >= 1 and no throwing probe, at most k probes are in flight
\* at any time, no monitor is probed twice, and the call terminates with
\* exactly one result per monitor, each monitor probed exactly once.
C8_BoundedFanOut ==
  /\ [](throwing = {} => C8_Safe)
  /\ (call = "idle" /\ throwing = {}) ~> (call = "returned")

\* three monitors, concurrency two: two probes in flight at once and the
\* call returned three results
C8_Witness ==
  /\ throwing = {}
  /\ Len(monitorList) = 3
  /\ concurrency = 2
  /\ call = "returned"
  /\ Len(results) = 3

(***************************************************************************)
(* Properties of the reload                                                *)
(***************************************************************************)
\* C9: when reloadMonitors has completed, the repeatable jobs are exactly
\* one job per monitor of the list it scheduled, each with every =
\* interval * 1000 ms; no job of a removed monitor or of a superseded
\* interval is left.
C9_JobsMatchNewList ==
  hpc = "done"
  => /\ repeatableJobs = ScheduledJobs(scheduleList)
     /\ Cardinality(repeatableJobs) = Len(scheduleList)
     /\ \A i \in DOMAIN scheduleList :
           \E job \in repeatableJobs :
              /\ job.monitor = scheduleList[i]
              /\ job.every = scheduleList[i].interval * 1000
              /\ \A other \in repeatableJobs :
                    other.monitor = scheduleList[i] => other = job

\* a reload completed that dropped a monitor and changed an interval
C9_Witness ==
  /\ hpc = "done"
  /\ previous.valid
  /\ previous.list = <<MonitorApi, MonitorWeb>>
  /\ scheduleList = <<MonitorApiMaintained>>
  /\ repeatableJobs = {RepeatableJob(MonitorApiMaintained, 0)}

\* the columns of the monitors table other than updated_at
MonitorColumns(table) ==
  {[id |-> r.id, name |-> r.name, group |-> r.group, type |-> r.type,
    url |-> r.url, public |-> r.public] : r \in table}

SameListReloaded ==
  /\ hpc = "done"
  /\ previous.valid
  /\ AppliedList.same
  /\ AppliedList.list = previous.list

\* C10 as stated: a reload that applies the same list as the reload before
\* it leaves the monitors table, the stored fixed windows, the
\* recurring-maintenance map and the repeatable jobs identical to what that
\* reload left.
C10_ReloadIdentical ==
  SameListReloaded
  => /\ monitorsTable = previous.monitors
     /\ maintenance_windows = previous.windows
     /\ recurringMaintenanceCache = previous.cache
     /\ repeatableJobs = previous.jobs

\* C10 amended: a reload that applies the same list as the reload before it
\* leaves every column of the monitors table except updated_at, the stored
\* fixed windows, the recurring-maintenance map and the repeatable jobs as
\* that reload left them; updated_at of every monitor of the list is the
\* time of the last sync.
C10_ReloadIdempotent ==
  SameListReloaded
  => /\ MonitorColumns(monitorsTable) = MonitorColumns(previous.monitors)
     /\ \A r \in monitorsTable : \E p \in previous.monitors :
           p.id = r.id /\ p.updated_at <= r.updated_at
     /\ maintenance_windows = previous.windows
     /\ recurringMaintenanceCache = previous.cache
     /\ repeatableJobs = previous.jobs

\* the same list with a stored fixed window and a recurring window was
\* applied twice
C10_Witness ==
  /\ SameListReloaded
  /\ monitorsTable # previous.monitors
  /\ maintenance_windows # {}
  /\ \E m \in ConfigIds : recurringMaintenanceCache[m] # <<>>
  /\ maintenance_windows # {}
  /\ \E m \in ConfigIds : recurringMaintenanceCache[m] # <<>>
  /\ repeatableJobs # {}

\* C11: a change event whose validation fails (config.yml or monitors.yml
\* does not parse) ends the handler at once and leaves the in-memory app
\* and monitors configuration, the monitors table, the fixed windows, the
\* recurring-maintenance map and the repeatable jobs as they were.
C11_InvalidConfigAborts ==
  [][(HandlerAtRest /\ reloads' = reloads + 1
        /\ ~(appFile.valid /\ file.valid))
     => /\ hpc' = "invalid"
        /\ UNCHANGED <<appConfig, monitorsConfig, monitorsTable,
                       maintenance_windows, recurringMaintenanceCache,
                       windowSeq, repeatableJobs>>]_vars

\* a change event was rejected while a configuration was active
C11_Witness ==
  /\ hpc = "invalid"
  /\ ~file.valid
  /\ appConfig.loaded
  /\ monitorsConfig.loaded
  /\ monitorsTable # {}
  /\ repeatableJobs # {}

\* the recurring daily windows the list configures for monitor id m
RecurringOf(list, m) ==
  IF \E i \in DOMAIN list : list[i].id = m
  THEN LET i == CHOOSE i \in DOMAIN list : list[i].id = m
       IN  SelectSeq(list[i].maintenance, LAMBDA w : w.type = "daily")
  ELSE <<>>

\* a reload has completed and applied one list
ReloadApplied == hpc = "done" /\ AppliedList.same

\* C12: after a reload the recurring-maintenance map holds, for every
\* monitor id, exactly the daily windows of the new list, so a monitor with
\* no daily window in the new list (or absent from it) is not reported in
\* maintenance because of a daily window of an earlier list.
C12_RecurringMapReplaced ==
  ReloadApplied
  => \A m \in ConfigIds :
        /\ recurringMaintenanceCache[m] = RecurringOf(AppliedList.list, m)
        /\ (RecurringOf(AppliedList.list, m) = <<>>
            => \A k \in DOMAIN recurringMaintenanceCache[m] :
                  ~isInRecurringWindow(recurringMaintenanceCache[m][k], now))

\* the one-time windows the list configures for monitor id m
OneTimeOf(list, m) ==
  IF \E i \in DOMAIN list : list[i].id = m
  THEN LET i == CHOOSE i \in DOMAIN list : list[i].id = m
       IN  Range(SelectSeq(list[i].maintenance, LAMBDA w : w.type # "daily"))
  ELSE {}

\* C13: after a reload the fixed windows stored for a monitor are those of
\* the new list: every stored window of the monitor is one the list
\* configures (so a window removed from the configuration suppresses
\* nothing), and no (monitor_id, start_time) is stored twice.
C13_FixedWindowsReplaced ==
  ReloadApplied
  => \A m \in ConfigIds :
        /\ \A r \in maintenance_windows :
              r.monitorId = m
              => \E w \in OneTimeOf(AppliedList.list, m) :
                    w.start = r.startTime /\ w.end = r.endTime
        /\ \A r \in ActiveFixedWindows(m, now) :
              \E w \in OneTimeOf(AppliedList.list, m) : w.start = r.startTime
        /\ \A r, q \in maintenance_windows :
              (r.monitorId = m /\ q.monitorId = m
                 /\ r.startTime = q.startTime) => r = q

\* syncMonitors has just committed the list it was given
SyncCommitted == hpc = "getRepeatable"

RowsOf(table, id) == {r \in table : r.id = id}

\* C14 as stated: after a successful syncMonitors(list) the monitors table
\* holds one row per monitor of the list, none for another id, and name,
\* group, type, url and public of each row are those of the list.
C14_RowsEqualList ==
  SyncCommitted
  => /\ {r.id : r \in monitorsTable} = {syncList[i].id : i \in DOMAIN syncList}
     /\ \A i \in DOMAIN syncList :
           /\ Cardinality(RowsOf(monitorsTable, syncList[i].id)) = 1
           /\ \A r \in RowsOf(monitorsTable, syncList[i].id) :
                 /\ r.name = syncList[i].name
                 /\ r.group = syncList[i].group
                 /\ r.type = syncList[i].type
                 /\ r.url = syncList[i].url
                 /\ r.public = syncList[i].public

\* C14 amended: after a successful syncMonitors(list) the monitors table
\* holds one row per monitor of the list and none for another id; name,
\* group, type and url of each row are those of the list; public is that of
\* the list for a monitor the sync inserted and the value stored before the
\* sync for a monitor that already had a row.
C14_SyncedRows ==
  [][(hpc = "sync" /\ hpc' = "getRepeatable")
     => /\ {r.id : r \in monitorsTable'}
             = {syncList[i].id : i \in DOMAIN syncList}
        /\ \A i \in DOMAIN syncList :
              /\ Cardinality(RowsOf(monitorsTable', syncList[i].id)) = 1
              /\ \A r \in RowsOf(monitorsTable', syncList[i].id) :
                    /\ r.name = syncList[i].name
                    /\ r.group = syncList[i].group
                    /\ r.type = syncList[i].type
                    /\ r.url = syncList[i].url
                    /\ IF RowsOf(monitorsTable, r.id) = {}
                       THEN r.public = syncList[i].public
                       ELSE \A old \in RowsOf(monitorsTable, r.id) :
                               r.public = old.public]_vars

\* a sync has updated an existing monitor whose public differs in the list,
\* and has deleted a monitor that left the list
C14_Witness ==
  /\ SyncCommitted
  /\ \E i \in DOMAIN syncList : \E r \in RowsOf(monitorsTable, syncList[i].id) :
        /\ r.public # syncList[i].public
        /\ r.url = syncList[i].url
  /\ Len(syncList) = 1
  /\ \E j \in repeatableJobs : j.monitor.id \notin {r.id : r \in monitorsTable}

\* C15: the repeatable job of a monitor carries the monitor's configured
\* id as monitorId (the value the worker passes to runCheck and that becomes
\* monitor_id of the check rows and incidents), whatever the position of
\* the monitor in the list.
C15_JobCarriesConfiguredId ==
  \A job \in repeatableJobs : job.monitorId = job.monitor.id

(***************************************************************************)
(* Properties of the scheduler and of shutdown                             *)
(***************************************************************************)
InWaitList(n) == \E t \in waiting : t.n = n

\* C16: while shutdown has not begun, every interval tick of a scheduled
\* monitor leads to runCheck being invoked and its result being handed to
\* processCheckResult (a tick whose runCheck rejects is set aside here: it
\* is the case of C7).
C16_TickLeadsToHandOver ==
  \A n \in 1..MaxTicks :
     (InWaitList(n) /\ spc = "running")
       ~> (n \in handedTicks \/ n \in thrownTicks \/ spc # "running")

\* the order in which shutdown leaves the resources
C17_Safe ==
  /\ resources.worker = "closed" => \A w \in Workers : claimed[w] = {}
  /\ resources.queue = "closed" => resources.worker = "closed"
  /\ resources.connection = "closed" => resources.queue = "closed"
  /\ Exited => (exitCode = {0} /\ resources.connection = "closed")

Evaluated == rpc \in {"evaluated", "returned"}

Passed(condition) == evaluate(condition, checkResult.context).value

\* C18: the condition results runCheck returns are as many as
\* monitor.conditions and in their order, each with the verdict of its own
\* condition; success is the probe's success and every condition passed,
\* which for an empty list is the probe's success
C18_ResultsParallelToConditions ==
  rpc = "returned" =>
    /\ Len(monitorCheckResult.conditionResults) = Len(conditions)
    /\ \A i \in DOMAIN conditions :
          /\ monitorCheckResult.conditionResults[i].condition = conditions[i]
          /\ monitorCheckResult.conditionResults[i].success
               = Passed(conditions[i])
    /\ monitorCheckResult.success
         = (checkResult.success
              /\ \A i \in DOMAIN conditions : Passed(conditions[i]))
    /\ conditions = <<>> => monitorCheckResult.success = checkResult.success

\* a successful probe, two different conditions, one of them failed
C18_Witness ==
  /\ rpc = "returned"
  /\ Len(conditions) >= 2
  /\ checkResult.success
  /\ monitorCheckResult.conditionResults[1].success
  /\ ~monitorCheckResult.conditionResults[2].success
  /\ ~monitorCheckResult.success

\* lhs OP rhs with an unknown placeholder, a path that selects nothing or is
\* malformed, an operand that is not JSON, or a malformed regular expression
FaultyConditions ==
  {Condition(lhs, op, rhs) :
     lhs \in {<<"[FOO]">>, <<"[BODY]", ".missing">>, <<"[BODY]", ".[">>},
     op \in Range(operators), rhs \in RightOperands}
  \cup
  {Condition(lhs, op, rhs) :
     lhs \in LeftOperands, op \in Range(operators),
     rhs \in {<<"undefined">>, <<"'", "heal", "thy", "'">>}}
  \cup
  {Condition(lhs, "matches", <<"\"", "(", "\"">>) : lhs \in LeftOperands}

\* C19: evaluate never throws and returns a boolean for every condition and
\* every context; a condition with a fault evaluates to false
C19_EvaluateNeverThrows ==
  /\ rpc # "rejected"
  /\ Evaluated =>
       /\ Len(conditionResults) = Len(conditions)
       /\ \A i \in DOMAIN conditionResults :
             /\ conditionResults[i].success \in BOOLEAN
             /\ conditions[i] \in FaultyConditions
                  => ~conditionResults[i].success

\* [BODY] of a body that JSON.stringify rejects: the catch clause of
\* evaluate answers
C19_Witness ==
  /\ rpc = "evaluated"
  /\ checkResult = HttpResponse(200, 120, Obj(CyclicText))
  /\ conditions = <<Condition(<<"[BODY]">>, "==", <<"200">>)>>
  /\ ~conditionResults[1].success

ScenarioConditions ==
  { Condition(<<"[STATUS]">>, "==", <<"200">>),
    Condition(<<"[RESPONSE_TIME]">>, "<", <<"500">>),
    Condition(<<"[BODY]", ".status">>, "==", <<"'", "heal", "thy", "'">>),
    Condition(<<"[BODY]", ".v[0]">>, "==", <<"1">>) }

\* C20: with STATUS 200, RESPONSE_TIME 120 and the body
\* {"status":"healthy","v":[1,2,3]}, each of [STATUS] == 200,
\* [RESPONSE_TIME] < 500, [BODY].status == 'healthy' and [BODY].v[0] == 1
\* evaluates to true
C20_ScenarioConditionsPass ==
  (Evaluated /\ checkResult = HttpResponse(200, 120, Obj(HealthBodyText)))
    => \A i \in DOMAIN conditions :
          conditions[i] \in ScenarioConditions => conditionResults[i].success

\* C21: the HTTP probe reports success for every status code once the
\* transport completed, and the conditions alone decide: a monitor whose
\* only condition is [STATUS] == 404 is up when the endpoint answers 404
C21_StatusLeftToConditions ==
  (rpc = "returned" /\ "STATUS" \in DOMAIN checkResult.context)
    => /\ checkResult.success
       /\ (/\ conditions = <<Condition(<<"[STATUS]">>, "==", <<"404">>)>>
           /\ checkResult.context.STATUS = Num(404))
            => monitorCheckResult.success

(***************************************************************************)
(* Properties of retention, aggregation and uptime                         *)
(***************************************************************************)
\* C22: deleteOldChecks(D) at time t removes every check row with
\* checked_at < t - D days and no other check row, and leaves incidents,
\* monitors, maintenance windows and status_history as they are
C22_RetentionCutoff ==
  [][\A retentionDays \in DayCounts :
       (/\ answer'.query = "deleteOldChecks"
        /\ answer'.days = retentionDays
        /\ <<checks, answer>>' # <<checks, answer>>)
         => /\ \A i \in DOMAIN checks' :
                 checks'[i].checkedAt >= now - MinutesPerDay * retentionDays
            /\ \A row \in CheckRows :
                 row.checkedAt >= now - MinutesPerDay * retentionDays
                   => Cardinality({i \in DOMAIN checks' : checks'[i] = row})
                        = Cardinality({i \in DOMAIN checks : checks[i] = row})
            /\ UNCHANGED <<incidents, monitorsTable, maintenance_windows,
                           status_history>>]_vars

\* a row older than the cutoff is gone and the row at the cutoff is kept
C22_Witness ==
  /\ answer.query = "deleteOldChecks"
  /\ answer.rowCount >= 1
  /\ \E i \in DOMAIN checks :
        checks[i].checkedAt = now - MinutesPerDay * answer.days
  /\ status_history # {}

HistoryRows(m, date) ==
  {r \in status_history : r.monitor_id = m /\ r.date = date}

\* C23: aggregateDailyStatus run again for the same (monitor, date), with
\* the check rows as they were, leaves exactly one status_history row for
\* (monitor, date) with the values it had after the first run
C23_AggregationIdempotent ==
  [][\A m \in Monitors, date \in Dates :
       (/\ aggregated[<<m, date>>] >= 1
        /\ aggregated'[<<m, date>>] = aggregated[<<m, date>>] + 1)
         => /\ status_history' = status_history
            /\ Cardinality(HistoryRows(m, date)') = 1]_vars

\* a day with two checks, one of them up, aggregated twice
C23_Witness ==
  \E m \in Monitors, date \in Dates :
     /\ aggregated[<<m, date>>] = 2
     /\ \E r \in HistoryRows(m, date) :
           r.total_checks = 2 /\ r.successful_checks = 1

\* successful / total * 100, and 100 for a window without a check
UptimePercentage(m, periodDays) ==
  LET rows == ChecksWithin(m, periodDays)
  IN IF rows = {} THEN Hundredths(10000)
     ELSE Hundredths((Cardinality(UpRows(rows)) * 10000)
                       \div Cardinality(rows))

\* C24: calculateUptime and getUptimeForMonitors answer
\* successful / total * 100 for every monitor asked for, 100 when the
\* window holds no check row, and agree with each other
C24_UptimeAgrees ==
  [][(answer' # answer
        /\ answer'.query \in {"calculateUptime", "getUptimeForMonitors"})
       => \A m \in answer'.ids :
            /\ answer'.uptime[m] = UptimePercentage(m, answer'.days)
            /\ calculateUptime(m, answer'.days)
                 = getUptimeForMonitors({m}, answer'.days)[m]]_vars

(***************************************************************************)
(* Properties of the detector's transitions                                *)
(***************************************************************************)
\* C25: every step of the detector that opens or resolves an incident emits
\* exactly one lifecycle event, and a step that leaves the incidents as they
\* are emits none
C25_TransitionEmitsEvent ==
  [][IF incidents' # incidents
       THEN Len(emitted') = Len(emitted) + 1
       ELSE emitted' = emitted]_vars

\* C26: when the processCheckResult calls of a monitor run one after another,
\* no two different incidents of one monitor are active at the same time,
\* whatever the results are and wherever the maintenance windows lie
C26_SerialAtMostOneActive ==
  \A i, j \in DOMAIN incidents :
    (/\ incidents[i].monitorId = incidents[j].monitorId
     /\ incidents[i].resolvedAt = NULL
     /\ incidents[j].resolvedAt = NULL) => i = j

\* a third failure in a row has been processed completely while the incident
\* opened by the second one is active
C26_Witness ==
  \E m \in Monitors :
    /\ Len(MonitorRows(m)) = 3
    /\ \A i \in ChecksOf(m) : checks[i].status = "down" /\ checks[i].inMaintenance = "no"
    /\ InFlight(m) = {}
    /\ Cardinality(ActiveIncidents(m)) = 1

\* C27: when a success result of a monitor has been processed completely
\* outside maintenance by a job that had the detector to itself, the monitor
\* has no active incident left, also when overlapping jobs ran before it
C27_LoneSuccessResolvesAll ==
  [][\A w \in Workers :
       (/\ Started > MaxChecks
        /\ wpc[w] \notin {"idle", "done"}
        /\ wpc'[w] = "done"
        /\ result[w].success
        /\ ~maintenanceStatus'[w])
         => \A i \in DOMAIN incidents' :
               incidents'[i].monitorId = result[w].monitorId
                 => incidents'[i].resolvedAt # NULL]_vars

\* C28: once resolved_at of an incident is set, no step changes it; in
\* particular the incident is never active (resolved_at NULL) again, however
\* the jobs of the workers interleave
C28_ResolvedAtIsFinal ==
  [][\A i \in DOMAIN incidents :
       incidents[i].resolvedAt # NULL
         => incidents'[i].resolvedAt = incidents[i].resolvedAt]_vars

\* C29: when every call of the change listener has returned from a
\* successful reload, overlapping or not, the repeatable jobs are exactly
\* the jobs of the list that was loaded last, one per monitor of it
C29_OverlappingReloadsConverge ==
  (/\ \A h \in Handlers : handler[h].pc = "done"
   /\ monitorsConfig.loaded)
    => repeatableJobs = ScheduledJobs(monitorsConfig.monitors)

\* C30: a call of syncMonitors that fails and rolls back leaves the rows of
\* maintenance_windows and the recurring-maintenance map as they were
\* before the call, like the monitors table
C30_RollbackRestoresMaintenance ==
  [][(hpc = "sync" /\ hpc' = "idle")
       => /\ monitorsTable' = monitorsTable
          /\ maintenance_windows' = maintenance_windows
          /\ recurringMaintenanceCache' = recurringMaintenanceCache]_vars

\* C31: when a reload that passed validation fails in a later step, the
\* list ConfigLoader serves, the monitors table and the repeatable jobs are
\* after the handler's return what the last completed reload left: all
\* three still describe that list
C31_FailedReloadKeepsPrior ==
  [][(/\ hpc \in {"validated", "sync", "getRepeatable", "remove", "drain",
                   "schedule"}
      /\ hpc' = "idle"
      /\ previous.valid)
       => /\ monitorsConfig'.loaded
          /\ monitorsConfig'.monitors = previous.list
          /\ monitorsTable' = previous.monitors
          /\ repeatableJobs' = previous.jobs]_vars

\* C32: when POST /api/reload-monitors or POST /api/admin/reload-monitors
\* answers with success, the repeatable jobs are the jobs of the list the
\* request has loaded
C32_EndpointReschedules ==
  [][(request.pc = "sync" /\ request'.pc = "responded"
        /\ request'.status = 200)
       => repeatableJobs' = ScheduledJobs(request.list)]_vars

\* C33: a job whose runCheck throws ends as a failed job without a call of
\* processCheckResult: its step writes no check row and opens or resolves
\* no incident, and the repeatable job of its monitor stays registered;
\* check rows come only from jobs whose result was handed over
C33_ThrowingJobWritesNothing ==
  [][/\ thrownTicks' \cap handedTicks' = {}
     /\ Len(checks') <= Cardinality(handedTicks')
     /\ \A w \in Workers : \A t \in claimed[w] :
           (claimed'[w] = {} /\ t.n \notin handedTicks)
             => /\ t.n \in thrownTicks'
                /\ checks' = checks
                /\ incidents' = incidents
                /\ repeatableJobs' = repeatableJobs
                /\ t.job \in repeatableJobs']_vars

\* the runCheck of a tick has thrown, its job has ended, and the check of
\* a later tick has run and handed its result over
C33_Witness ==
  \E w \in Workers : \E t \in claimed[w] :
     /\ t.n \in handedTicks
     /\ t.job \in repeatableJobs
     /\ \E k \in thrownTicks : k < t.n

\* C35: a newly opened incident has status investigating; its severity is
\* critical when the error of the triggering result contains "DNS" or
\* "certificate", otherwise major when it contains "timeout" or
\* "ECONNREFUSED", otherwise minor
C35_SeverityOfNewIncident ==
  [][\A w \in Workers :
       (wpc[w] = "create" /\ wpc'[w] = "done")
         => LET opened == incidents'[Len(incidents')]
                error == result[w].error
            IN  /\ Len(incidents') = Len(incidents) + 1
                /\ opened.status = "investigating"
                /\ opened.severity =
                     IF "DNS" \in error \/ "certificate" \in error
                       THEN "critical"
                     ELSE IF "timeout" \in error \/ "ECONNREFUSED" \in error
                       THEN "major"
                     ELSE "minor"]_vars

C36_RecurringWindowActive ==
  lookup.pc = "answered" /\ lookup.monitorId = 1 =>
    LET config   == recurringMaintenanceCache[1][1]
        start    == config.start_time[1] * 60 + config.start_time[2]
        end      == config.end_time[1] * 60 + config.end_time[2]
        minute   == lookup.at % MinutesPerDay
        active   == \/ start <= end /\ start <= minute /\ minute < end
                    \/ start > end /\ (minute >= start \/ minute < end)
    IN  active <=> (lookup.answer.inMaintenance /\ lookup.answer.window = NULL)

C38_DailyNumbers ==
  [][\A m \in Monitors, date \in Dates :
       aggregated'[<<m, date>>] = aggregated[<<m, date>>] + 1
         => LET rows  == {i \in DOMAIN checks :
                            /\ checks[i].monitorId = m
                            /\ checks[i].checkedAt \div MinutesPerDay = date}
                up    == {i \in rows : checks[i].status = "up"}
                total == Cardinality(rows)
                succ  == Cardinality(up)
                times == {checks[i].responseTime : i \in up}
                time  == Sum([t \in times |->
                                t * Cardinality({i \in up :
                                                  checks[i].responseTime = t})],
                             times)
            IN  \E r \in status_history' :
                  /\ r.monitor_id = m /\ r.date = date
                  /\ r.total_checks = total
                  /\ r.successful_checks = succ
                  /\ total > 0 =>
                        \E u \in r.uptime_percentage :
                           /\ 2 * (u * total - succ * 10000) <= total
                           /\ 2 * (succ * 10000 - u * total) < total
                  /\ succ > 0 =>
                        \E avg \in r.avg_response_time_ms :
                           /\ 2 * (avg * succ - time) <= succ
                           /\ 2 * (time - avg * succ) < succ
                  /\ (total = 100 /\ succ = 95 /\ time = 9500) =>
                        /\ r.uptime_percentage = {9500}
                        /\ r.avg_response_time_ms = {100}]_vars

\* the day of 95 up rows and 5 down rows has been aggregated
C38_Witness ==
  \E r \in status_history :
     /\ r.total_checks = 100
     /\ r.successful_checks = 95
     /\ r.uptime_percentage = {9500}
     /\ r.avg_response_time_ms = {100}
     /\ Len(checks) = 100

\* C39: every status_history row has total_checks >= 1 and
\* 0 <= successful_checks <= total_checks: no sequence of aggregateToday,
\* aggregateAllYesterday, backfillHistory and deleteOldChecks calls writes a
\* summary row from a (monitor, date) without check rows
C39_NoEmptySummary ==
  \A r \in status_history :
     /\ r.total_checks >= 1
     /\ 0 <= r.successful_checks
     /\ r.successful_checks <= r.total_checks

\* C40: useSmartPolling never stacks polls: whatever the order of poll
\* completions, timer expirations and visibility changes, at most one
\* onPoll call is in flight and at most one poll timer is pending
C40_NoStackedPolls ==
  /\ onPollCalls <= 1
  /\ Cardinality(timers) <= 1

====
